---- MODULE Spec2Model ----
(***************************************************************************)
(* pair-watch: the playback synchronisation protocol.                      *)
(*                                                                         *)
(* Clients are pages of the React component SyncPlayer                     *)
(* (src/app/_components/SyncPlayer.tsx); the relay is the socket.io hub of *)
(* src/server.js.  Every handler of the component is an operator on the    *)
(* record of one page; every action runs one handler to completion and     *)
(* then commits the React render the handler scheduled.                    *)
(*                                                                         *)
(* Units: wall-clock values are milliseconds, media positions are          *)
(* hundredths of a second (SYNC_THRESHOLD = 0.35 s = 35).                  *)
(*                                                                         *)
(* Time.  The code reads the clock in one place, the debounce test         *)
(* Date.now() - lastLocalUpdateRef.current < 150, and starts one kind of   *)
(* timer, the 100 ms settle timer.  A page therefore carries sincePush,    *)
(* the value of Date.now() - lastLocalUpdateRef.current (no longer counted *)
(* once it has reached the debounce window), and for every pending settle  *)
(* timer the time left until it is due.  Tick lets TickMs pass.            *)
(*                                                                         *)
(* Network.  A message a connected page emits is handled by the relay in   *)
(* the same step (no delay on the way up); what the relay sends waits in   *)
(* down[p] until p handles it (any delay on the way down).  What a page    *)
(* emits while its socket is disconnected waits in its outbox (socket.io's *)
(* send buffer) and is flushed when the socket connects.                   *)
(*                                                                         *)
(* Closures.  The component's functions read the React state               *)
(* (selectedVideo, playAll) of the render that created them:               *)
(*   - the socket handlers and the heartbeat are created by the effect     *)
(*     with the empty dependency list, i.e. by the first render, where     *)
(*     selectedVideo = "" and playAll = false (FirstRenderVideo,           *)
(*     FirstRenderPlayAll);                                                *)
(*   - the player event handlers are created by the effect that depends on *)
(*     [playAll]: they see the current playAll and the selectedVideo of    *)
(*     the render in which playAll last changed (field boundVideo);        *)
(*   - the handlers written inline in the JSX see the latest render.       *)
(*                                                                         *)
(* Player.  play(), pause() and the playbackRate setter queue their event  *)
(* at once, so "play", "pause" and "ratechange" are dispatched before any  *)
(* time passes; "seeked" comes when the seek is complete, at any later     *)
(* time.  What loading a new source does to the element's position, paused *)
(* flag and rate is left out: the fields keep their values.                *)
(*                                                                         *)
(* Runs.  A run starts in a session that is under way (Init: two peers,    *)
(* InitRoom: three) and takes at most MaxActs spontaneous steps; reloads   *)
(* and reconnections are among them, so pages also start from scratch.     *)
(* The variable last names the step just taken.                            *)
(*                                                                         *)
(* The plain-script client (src/unnamed/part_003) is modelled on the same  *)
(* page record by the definitions named plain... and Plain...              *)
(***************************************************************************)
EXTENDS Integers, Sequences, FiniteSets, Bags, TLC

VARIABLES
    cl,       \* cl[p]: the page of peer p (refs, React state, player, localStorage)
    down,     \* down[p]: messages the relay has sent to p, not yet handled by p
    nextSid,  \* the next socket id the relay hands out
    acts,     \* number of spontaneous steps taken so far (users, media, network)
    last,     \* the step just taken: the handler that ran and the peer it ran on
    SERVER_VERSION, \* the version token of the relay process that is running
    run,      \* the call of runWithConcurrency under way: its locals and its tasks
    wk        \* the queue worker: its position, its batch, the queue and the bucket

vars == <<cl, down, nextSid, acts, last, SERVER_VERSION, run, wk>>

----------------------------------------------------------------------------
(* Bounds and program constants *)

Peer(i) == <<"p1", "p2", "p3">>[i]
Peers == { Peer(i) : i \in 1..3 }

\* spontaneous steps of a run (user actions, heartbeat ticks, end of media,
\* reloads, lost connections); what they set off is not counted
MaxActs == 1
\* socket ids the relay hands out (connections made)
MaxSid == 4

SYNC_THRESHOLD == 35
DebounceMs == 150
SettleMs == 100
TickMs == SettleMs \div 2

Videos == {"A", "B"}
Catalogs == { <<>>, <<"A">>, <<"A", "B">> }
Times == {0, SYNC_THRESHOLD, SYNC_THRESHOLD + 1}
Rates == {1, 2}

NoVideo == ""
\* no upload and no queue worker is running beside the session
NoRun == [pc |-> "none"]
NoWorker == [pc |-> "none"]
NoReason == ""
NoSid == 0
FirstRenderVideo == NoVideo
FirstRenderPlayAll == FALSE

Range(s) == { s[i] : i \in 1..Len(s) }
Abs(x) == IF x < 0 THEN -x ELSE x

----------------------------------------------------------------------------
(* Values on the wire *)

\* type PlaybackState; reason is optional (NoReason = absent)
Snapshot(video, paused, time, playbackRate, playAll, reason) ==
    [video |-> video, paused |-> paused, time |-> time,
     playbackRate |-> playbackRate, playAll |-> playAll, reason |-> reason]

\* An optional field is a sequence of length 0 (absent) or 1.
StateMsg(state) == [type |-> "state", state |-> state]
RequestMsg(requester) == [type |-> "request-state", requester |-> requester]
ReplyMsg(to, state) == [type |-> "reply-state", to |-> to, state |-> state]
RoomInfoMsg(count) == [type |-> "room-info", count |-> count]
VersionMsg(version) == [type |-> "server-version", version |-> version]
ChatMsg(message) == [type |-> "chat", message |-> message]
CallOfferMsg == [type |-> "call-offer"]
CallAnswerMsg == [type |-> "call-answer"]
CallEndMsg == [type |-> "call-end"]

\* the tokens of successive starts of the relay (Date.now() at start)
Versions == <<"v1", "v2">>
ServerVersion == Versions[1]

----------------------------------------------------------------------------
(* The page: SyncPlayer.tsx *)

\* State of a freshly mounted page; localStorage (cache) outlives the page.
NewPage(cache) ==
    [ open |-> TRUE, connected |-> FALSE, sid |-> NoSid, outbox |-> <<>>,
      status |-> "Connecting", syncState |-> "Idle", peers |-> 0,
      fetched |-> FALSE, listening |-> TRUE, playlist |-> <<>>,
      selectedVideo |-> NoVideo, playAll |-> FALSE, boundVideo |-> NoVideo,
      requestedVideo |-> NoVideo,
      paused |-> TRUE, currentTime |-> 0, playbackRate |-> 1,
      media |-> "none", events |-> {},
      isApplyingRemote |-> FALSE, pendingRemote |-> <<>>, sincePush |-> DebounceMs,
      timers |-> EmptyBag, serverVersion |-> "", cache |-> cache,
      messages |-> <<>>,
      peerConnection |-> FALSE, localStream |-> FALSE,
      remoteDescription |-> FALSE, remoteStream |-> FALSE ]

\* socketRef.current.emit: the message joins the socket's send queue
Emit(c, msg) == [c EXCEPT !.outbox = Append(@, msg)]

collectState(c, selectedVideo, playAll) ==
    Snapshot(selectedVideo, c.paused, c.currentTime, c.playbackRate, playAll, NoReason)

\* pushState without its guard check
pushStateUnguarded(c, reason, selectedVideo, playAll) ==
    LET state == [collectState(c, selectedVideo, playAll) EXCEPT !.reason = reason]
    IN  Emit([c EXCEPT !.sincePush = 0], StateMsg(<<state>>))

pushState(c, reason, selectedVideo, playAll) ==
    IF c.isApplyingRemote THEN c
    ELSE LET state == [collectState(c, selectedVideo, playAll) EXCEPT !.reason = reason]
         IN  Emit([c EXCEPT !.sincePush = 0], StateMsg(<<state>>))

cacheState(c, state) ==
    IF state.video = NoVideo THEN c
    ELSE [c EXCEPT !.cache = << [video |-> state.video, time |-> state.time,
                                 paused |-> state.paused,
                                 playbackRate |-> state.playbackRate,
                                 playAll |-> state.playAll] >>]

SyncingLabel(reason) ==
    IF reason # NoReason THEN "Syncing (" \o reason \o ")" ELSE "Syncing"

\* video.currentTime = t: the element seeks and later reports "seeked"
SetCurrentTime(c, t) == [c EXCEPT !.currentTime = t, !.events = @ \cup {"seeked"}]
SetPlaybackRate(c, r) == [c EXCEPT !.playbackRate = r, !.events = @ \cup {"ratechange"}]
\* video.pause(): a playing element pauses and later reports "pause"
Pause(c) == IF c.paused THEN c
            ELSE [c EXCEPT !.paused = TRUE, !.events = @ \cup {"pause"}]
\* video.play(): the returned promise is rejected (playOk = FALSE, e.g. autoplay
\* policy) and the element stays paused, or it starts and later reports "play"
Play(c, playOk) == IF c.paused /\ playOk
                   THEN [c EXCEPT !.paused = FALSE, !.events = @ \cup {"play"}]
                   ELSE c

\* applyRemoteState with a rejection of play() that is not caught: the
\* handler ends at the call
applyRemoteStateUncaught(c, state, selectedVideo, playOk) ==
    LET c1 == [c EXCEPT !.isApplyingRemote = TRUE,
                        !.syncState = SyncingLabel(state.reason)]
    IN
    IF state.video # NoVideo /\ state.video # selectedVideo
    THEN [c1 EXCEPT !.requestedVideo = state.video,
                    !.selectedVideo = state.video,
                    !.pendingRemote = <<state>>,
                    !.isApplyingRemote = FALSE]
    ELSE LET c2 == [c1 EXCEPT !.playAll = state.playAll]
             c3 == IF Abs(c2.currentTime - state.time) > SYNC_THRESHOLD
                   THEN SetCurrentTime(c2, state.time) ELSE c2
             c4 == IF c3.playbackRate # state.playbackRate
                   THEN SetPlaybackRate(c3, state.playbackRate) ELSE c3
             c5 == IF state.paused THEN Pause(c4) ELSE Play(c4, playOk)
             c6 == cacheState(c5, state)
         IN  IF ~state.paused /\ c4.paused /\ ~playOk THEN c4
             ELSE [c6 EXCEPT !.timers = @ (+) SetToBag({SettleMs})]

applyRemoteState(c, state, selectedVideo, playOk) ==
    LET c1 == [c EXCEPT !.isApplyingRemote = TRUE,
                        !.syncState = SyncingLabel(state.reason)]
    IN
    IF state.video # NoVideo /\ state.video # selectedVideo
    THEN [c1 EXCEPT !.requestedVideo = state.video,
                    !.selectedVideo = state.video,
                    !.pendingRemote = <<state>>,
                    !.isApplyingRemote = FALSE]
    ELSE LET c2 == [c1 EXCEPT !.playAll = state.playAll]
             c3 == IF Abs(c2.currentTime - state.time) > SYNC_THRESHOLD
                   THEN SetCurrentTime(c2, state.time) ELSE c2
             c4 == IF c3.playbackRate # state.playbackRate
                   THEN SetPlaybackRate(c3, state.playbackRate) ELSE c3
             c5 == IF state.paused THEN Pause(c4) ELSE Play(c4, playOk)
             c6 == cacheState(c5, state)
         IN  [c6 EXCEPT !.timers = @ (+) SetToBag({SettleMs})]

IndexOf(list, x) ==
    IF x \in Range(list)
    THEN CHOOSE i \in 1..Len(list) : list[i] = x /\ \A j \in 1..(i-1) : list[j] # x
    ELSE 0

\* NoVideo stands for null; positions are 1-based, so 0 stands for indexOf's -1
getNextVideo(playlist, selectedVideo) ==
    IF Len(playlist) = 0 THEN NoVideo
    ELSE LET currentIndex == IndexOf(playlist, selectedVideo)
         IN  IF currentIndex = 0 THEN playlist[1]
             ELSE playlist[(currentIndex % Len(playlist)) + 1]

restoreCachedState(c, list) ==
    IF c.cache = <<>> THEN c
    ELSE LET cached == c.cache[1]
         IN  IF cached.video = NoVideo THEN c
             ELSE IF cached.video \notin Range(list) THEN c
             ELSE [c EXCEPT !.selectedVideo = cached.video,
                            !.playAll = cached.playAll,
                            !.pendingRemote =
                                << Snapshot(cached.video, cached.paused, cached.time,
                                            cached.playbackRate, cached.playAll,
                                            NoReason) >>]

\* list: the HLS-ready entries of the fetched catalog, in catalog order
loadVideos(c, list) ==
    LET c1 == [c EXCEPT !.fetched = TRUE]
    IN  IF Len(list) = 0 THEN c1
        ELSE LET initialVideo == IF c1.requestedVideo # NoVideo
                                 THEN c1.requestedVideo ELSE list[1]
             IN  restoreCachedState([c1 EXCEPT !.playlist = list,
                                               !.selectedVideo = initialVideo], list)

\* listeners that tag every push "play"
handleMediaEventOneTag(c, e) == pushState(c, "play", c.boundVideo, c.playAll)

handleMediaEvent(c, e) == pushState(c, e, c.boundVideo, c.playAll)

handleLoaded(c, playOk) ==
    IF c.pendingRemote # <<>>
    THEN [applyRemoteState(c, c.pendingRemote[1], c.boundVideo, playOk)
            EXCEPT !.pendingRemote = <<>>]
    ELSE c

handleEnded(c) ==
    IF ~c.playAll THEN c
    ELSE LET next == getNextVideo(c.playlist, c.boundVideo)
         IN  IF next = NoVideo THEN c
             ELSE pushState([c EXCEPT !.selectedVideo = next], "auto-next",
                            c.boundVideo, c.playAll)

\* the interval callback without its test of video.paused
onHeartbeatAlways(c) == pushState(c, "heartbeat", FirstRenderVideo, FirstRenderPlayAll)

onHeartbeat(c) ==
    IF c.paused THEN c
    ELSE pushState(c, "heartbeat", FirstRenderVideo, FirstRenderPlayAll)

onConnect(c) == Emit([c EXCEPT !.status = "Connected"], RequestMsg(c.sid))

onRoomInfo(c, msg) == [c EXCEPT !.peers = msg.count]

\* a "request-state" handler that answers nobody
onRequestStateIgnored(c, msg) == c

onRequestState(c, msg) ==
    IF msg.requester = NoSid THEN c
    ELSE Emit(c, ReplyMsg(msg.requester,
                          <<collectState(c, FirstRenderVideo, FirstRenderPlayAll)>>))

Debounced(c) == c.sincePush < DebounceMs

\* the "state" handler without its debounce check
onStateNoDebounce(c, msg, playOk) ==
    IF msg.state = <<>> THEN c
    ELSE applyRemoteState(c, msg.state[1], FirstRenderVideo, playOk)

\* a "state" handler that leaves heartbeat snapshots alone on a paused player
onStateByReason(c, msg, playOk) ==
    IF msg.state = <<>> THEN c
    ELSE IF Debounced(c) THEN c
    ELSE IF msg.state[1].reason = "heartbeat" /\ c.paused THEN c
    ELSE applyRemoteState(c, msg.state[1], FirstRenderVideo, playOk)

onState(c, msg, playOk) ==
    IF msg.state = <<>> THEN c
    ELSE IF Debounced(c) THEN c
    ELSE applyRemoteState(c, msg.state[1], FirstRenderVideo, playOk)

\* a test that takes every token for a changed one
versionChangedAlways(c, msg) == msg.version # ""

\* the handler's last branch: the version differs from the stored one
versionChanged(c, msg) ==
    msg.version # "" /\ c.serverVersion # "" /\ msg.version # c.serverVersion

\* cacheState(collectState()) before location.reload()
captureForReload(c) ==
    cacheState(c, collectState(c, FirstRenderVideo, FirstRenderPlayAll))

onServerVersion(c, msg) ==
    IF msg.version = "" THEN c
    ELSE IF c.serverVersion = "" THEN [c EXCEPT !.serverVersion = msg.version]
    ELSE c

onSelectVideo(c, value) ==
    pushState([c EXCEPT !.requestedVideo = value, !.selectedVideo = value],
              "video-change", c.selectedVideo, c.playAll)

onTogglePlayAll(c, value) ==
    pushState([c EXCEPT !.playAll = value], "play-all", c.selectedVideo, c.playAll)

onResync(c) == Emit(c, RequestMsg(c.sid))

\* the callback of a settle timer that is due (no time left)
onSettleTimer(c) ==
    [c EXCEPT !.timers = @ (-) SetToBag({0}), !.isApplyingRemote = FALSE,
              !.syncState = "In sync"]

\* TickMs pass on the page's clock
Elapse(c) ==
    [c EXCEPT !.sincePush = IF @ < DebounceMs THEN @ + TickMs ELSE @,
              !.timers = [left \in { d - TickMs : d \in BagToSet(@) } |->
                             @[left + TickMs]]]

\* selectedEntry: the catalog entry of the selected video, NoVideo for null
selectedEntry(c) ==
    IF c.selectedVideo \in Range(c.playlist) THEN c.selectedVideo ELSE NoVideo

\* The render React runs after a handler (c0 before the handler, c1 after it):
\* the [playAll] effect re-creates the player event handlers when playAll
\* changed; the [selectedEntry] effect tears the old HLS source down and loads
\* the new entry when the selected entry changed.
Commit(c0, c1) ==
    LET c2 == IF c1.playAll # c0.playAll
              THEN [c1 EXCEPT !.boundVideo = c1.selectedVideo] ELSE c1
    IN  IF selectedEntry(c1) # selectedEntry(c0)
        THEN [c2 EXCEPT !.media = IF selectedEntry(c1) = NoVideo
                                  THEN "none" ELSE "loading"]
        ELSE c2


handleBeforeUnload(c) ==
    cacheState(c, collectState(c, FirstRenderVideo, FirstRenderPlayAll))

----------------------------------------------------------------------------
(* The relay: server.js.  socks maps every connected peer to its socket id. *)

Sockets == [q \in { p \in Peers : cl[p].connected } |-> cl[q].sid]

\* io.engine.clientsCount
clientsCount(socks) == Cardinality(DOMAIN socks)

\* Append msg to the queue of every peer of the set to
Send(queues, to, msg) ==
    [q \in Peers |-> IF q \in to THEN Append(queues[q], msg) ELSE queues[q]]

\* io.on("connection") for the new socket of p (p is in socks)
relayConnection(queues, socks, p) ==
    LET q1 == Send(queues, {p}, VersionMsg(SERVER_VERSION))
        q2 == Send(q1, DOMAIN socks, RoomInfoMsg(clientsCount(socks)))
    IN  Send(q2, DOMAIN socks \ {p}, RequestMsg(socks[p]))

\* the "disconnect" handler counting the socket that has just left
relayDisconnectCountingLeaver(queues, socks) ==
    Send(queues, DOMAIN socks, RoomInfoMsg(clientsCount(socks) + 1))

\* socket.on("disconnect"): socks are the sockets still connected
relayDisconnect(queues, socks) ==
    Send(queues, DOMAIN socks, RoomInfoMsg(clientsCount(socks)))

\* the "state" handler sending to everybody, the sender included
relayStateToAll(queues, socks, p, msg) ==
    IF msg.state = <<>> THEN queues
    ELSE Send(queues, DOMAIN socks, StateMsg(msg.state))

relayState(queues, socks, p, msg) ==
    IF msg.state = <<>> THEN queues
    ELSE Send(queues, DOMAIN socks \ {p}, StateMsg(msg.state))

\* the "request-state" handler without its test of requester
relayRequestStateUnchecked(queues, socks, p, msg) ==
    Send(queues, DOMAIN socks \ {p}, RequestMsg(msg.requester))

relayRequestState(queues, socks, p, msg) ==
    IF msg.requester = NoSid THEN queues
    ELSE Send(queues, DOMAIN socks \ {p}, RequestMsg(msg.requester))

\* the "reply-state" handler sending to everybody but the sender
relayReplyStateBroadcast(queues, socks, p, msg) ==
    IF msg.to = NoSid \/ msg.state = <<>> THEN queues
    ELSE Send(queues, DOMAIN socks \ {p}, StateMsg(msg.state))

\* io.to(to): the connected socket whose id is to, if there is one
relayReplyState(queues, socks, p, msg) ==
    IF msg.to = NoSid \/ msg.state = <<>> THEN queues
    ELSE Send(queues, { q \in DOMAIN socks : socks[q] = msg.to }, StateMsg(msg.state))

\* the "chat" handler sending to everybody, the sender included
relayChatToAll(queues, socks, p, msg) ==
    IF msg.message.text = "" THEN queues
    ELSE Send(queues, DOMAIN socks, ChatMsg(msg.message))

relayChat(queues, socks, p, msg) ==
    IF msg.message.text = "" THEN queues
    ELSE Send(queues, DOMAIN socks \ {p}, ChatMsg(msg.message))

\* the "call-offer", "call-answer" and "call-end" handlers; the pages always
\* send an offer and an answer with their message
relayCall(queues, socks, p, msg) == Send(queues, DOMAIN socks \ {p}, msg)

relayMessage(queues, socks, p, msg) ==
    CASE msg.type = "state" -> relayState(queues, socks, p, msg)
      [] msg.type = "request-state" -> relayRequestState(queues, socks, p, msg)
      [] msg.type = "reply-state" -> relayReplyState(queues, socks, p, msg)
      [] msg.type = "chat" -> relayChat(queues, socks, p, msg)
      [] msg.type = "call-offer" -> relayCall(queues, socks, p, msg)
      [] msg.type = "call-answer" -> relayCall(queues, socks, p, msg)
      [] msg.type = "call-end" -> relayCall(queues, socks, p, msg)

\* the relay handles the messages msgs of p in the order p sent them
RECURSIVE relayAll(_, _, _, _)
relayAll(queues, socks, p, msgs) ==
    IF msgs = <<>> THEN queues
    ELSE relayAll(relayMessage(queues, socks, p, Head(msgs)), socks, p, Tail(msgs))

----------------------------------------------------------------------------
(* Actions *)

\* A handler of p ran and left the page as c1, the relay's queues being
\* queues: React renders, and the relay handles what the page emitted.
Step(p, c1, queues) ==
    LET c2 == Commit(cl[p], c1)
    IN  IF c2.connected
        THEN /\ cl' = [cl EXCEPT ![p] = [c2 EXCEPT !.outbox = <<>>]]
             /\ down' = relayAll(queues, Sockets, p, c2.outbox)
        ELSE /\ cl' = [cl EXCEPT ![p] = c2]
             /\ down' = queues

Spend == acts < MaxActs /\ acts' = acts + 1

NoPeer == ""
Did(op, p) == last' = [op |-> op, peer |-> p]

\* A page in a running session with n peers: connected as socket sid, the
\* catalog <<"A", "B">> loaded and its first entry selected and ready, the
\* join handshake over, nothing in flight.
SessionPage(sid, n) ==
    [NewPage(<<>>) EXCEPT !.connected = TRUE, !.sid = sid, !.status = "Connected",
                          !.syncState = "In sync", !.peers = n,
                          !.fetched = TRUE, !.playlist = <<"A", "B">>,
                          !.selectedVideo = "A", !.media = "ready",
                          !.serverVersion = ServerVersion]

\* A browser that has no page of the player open
NoPage == [NewPage(<<>>) EXCEPT !.open = FALSE]

\* What an earlier session may have left in localStorage
Caches == { << [video |-> "B", time |-> SYNC_THRESHOLD + 1, paused |-> FALSE,
                playbackRate |-> 2, playAll |-> TRUE] >>,
            << [video |-> "B", time |-> SYNC_THRESHOLD, paused |-> TRUE,
                playbackRate |-> 1, playAll |-> FALSE] >> }

\* The pages a peer of a session can be on once the peers have drifted apart.
\* A peer's local change reaches the others unless it falls into their
\* debounce window, so two users acting at the same moment keep their own
\* change: every combination of selection, play-all switch, handler closure
\* and player position below is a state the session can be in.
DriftedPages(sid, n) ==
    { [SessionPage(sid, n) EXCEPT !.selectedVideo = v, !.playAll = pa,
                                  !.boundVideo = bv, !.paused = pz,
                                  !.currentTime = t] :
        v \in Videos, pa \in BOOLEAN, bv \in {NoVideo} \cup Videos,
        pz \in BOOLEAN, t \in Times }

\* The pages of a session that hold a cached state
CachedPages(sid, n) == { [SessionPage(sid, n) EXCEPT !.cache = ca] : ca \in Caches }

\* The pages of a session that have just applied a remote state: the guard
\* is held and the settle timer has its whole time to run.
ApplyingPages(sid, n) ==
    { [SessionPage(sid, n) EXCEPT !.isApplyingRemote = TRUE,
                                  !.timers = SetToBag({SettleMs}),
                                  !.syncState = "Syncing",
                                  !.paused = pz, !.playAll = pa,
                                  !.boundVideo = IF pa THEN "A" ELSE NoVideo] :
        pz \in BOOLEAN, pa \in BOOLEAN }

\* The pages of a session that have just deferred a remote state naming "B":
\* "B" is selected and loading, the snapshot is pending.
PendingPages(sid, n) ==
    { [SessionPage(sid, n) EXCEPT !.selectedVideo = "B", !.requestedVideo = "B",
                                  !.media = "loading", !.boundVideo = bv,
                                  !.syncState = "Syncing (video-change)",
                                  !.pendingRemote =
                                      << Snapshot("B", TRUE, SYNC_THRESHOLD + 1, 1,
                                                  FALSE, "video-change") >>] :
        bv \in {NoVideo, "B"} }

\* Two peers in a session; the page of p1 has drifted.
Init ==
    /\ cl \in { [p \in Peers |-> CASE p = "p1" -> c1
                                  [] p = "p2" -> SessionPage(2, 2)
                                  [] OTHER -> NoPage] : c1 \in DriftedPages(1, 2) \cup CachedPages(1, 2)
                                                        \cup ApplyingPages(1, 2)
                                                        \cup PendingPages(1, 2) }
    /\ down = [p \in Peers |-> <<>>]
    /\ nextSid = 3
    /\ acts = 0
    /\ last = [op |-> "Init", peer |-> NoPeer]
    /\ SERVER_VERSION = ServerVersion
    /\ run = NoRun
    /\ wk = NoWorker

\* Three peers in a session and in step, all paused or all playing.
InitRoom ==
    /\ cl \in { [p \in Peers |-> [SessionPage(CHOOSE i \in 1..3 : Peer(i) = p, 3)
                                      EXCEPT !.paused = pz]] : pz \in BOOLEAN }
    /\ down = [p \in Peers |-> <<>>]
    /\ nextSid = 4
    /\ acts = 0
    /\ last = [op |-> "Init", peer |-> NoPeer]
    /\ SERVER_VERSION = ServerVersion
    /\ run = NoRun
    /\ wk = NoWorker

\* The socket of p connects: the relay's connection handler runs, the socket
\* flushes its send buffer and p's "connect" handler runs.
Connect(p) ==
    /\ ~cl[p].connected
    /\ nextSid <= MaxSid
    /\ LET c1 == onConnect([cl[p] EXCEPT !.connected = TRUE, !.sid = nextSid])
           socks == [q \in DOMAIN Sockets \cup {p} |->
                        IF q = p THEN nextSid ELSE Sockets[q]]
       IN  /\ cl' = [cl EXCEPT ![p] = [Commit(cl[p], c1) EXCEPT !.outbox = <<>>]]
           /\ down' = relayAll(relayConnection(down, socks, p), socks, p, c1.outbox)
    /\ nextSid' = nextSid + 1
    /\ UNCHANGED <<acts, SERVER_VERSION, run, wk>>
    /\ Did("Connect", p)

\* The socket of p and the relay's queue for it are closed, the relay's
\* disconnect handler runs.  socks: the sockets connected before.
closeSocket(queues, socks, p) ==
    IF p \in DOMAIN socks
    THEN relayDisconnect([queues EXCEPT ![p] = <<>>],
                         [q \in DOMAIN socks \ {p} |-> socks[q]])
    ELSE queues

\* The connection of p is lost.
Disconnect(p) ==
    /\ cl[p].connected
    /\ Spend
    /\ cl' = [cl EXCEPT ![p] = [@ EXCEPT !.connected = FALSE, !.sid = NoSid]]
    /\ down' = closeSocket(down, Sockets, p)
    /\ UNCHANGED <<nextSid, SERVER_VERSION, run, wk>>
    /\ Did("Disconnect", p)

\* The user reloads the page of p: beforeunload, then a new page.
Reload(p) ==
    /\ Spend
    /\ cl' = [cl EXCEPT ![p] = NewPage(handleBeforeUnload(cl[p]).cache)]
    /\ down' = closeSocket(down, Sockets, p)
    /\ UNCHANGED <<nextSid, SERVER_VERSION, run, wk>>
    /\ Did("Reload", p)

Incoming(p, type) ==
    /\ cl[p].connected
    /\ down[p] # <<>>
    /\ Head(down[p]).type = type

\* the relay's queues once p has taken its next message
Taken(p) == [down EXCEPT ![p] = Tail(@)]

RecvRoomInfo(p) ==
    /\ Incoming(p, "room-info")
    /\ Step(p, onRoomInfo(cl[p], Head(down[p])), Taken(p))
    /\ UNCHANGED <<nextSid, acts, SERVER_VERSION, run, wk>>
    /\ Did("RecvRoomInfo", p)

RecvServerVersion(p) ==
    /\ Incoming(p, "server-version")
    /\ IF versionChanged(cl[p], Head(down[p]))
       THEN /\ cl' = [cl EXCEPT ![p] = NewPage(captureForReload(cl[p]).cache)]
            /\ down' = closeSocket(down, Sockets, p)
       ELSE Step(p, onServerVersion(cl[p], Head(down[p])), Taken(p))
    /\ UNCHANGED <<nextSid, acts, SERVER_VERSION, run, wk>>
    /\ Did("RecvServerVersion", p)

RecvRequestState(p) ==
    /\ Incoming(p, "request-state")
    /\ Step(p, onRequestState(cl[p], Head(down[p])), Taken(p))
    /\ UNCHANGED <<nextSid, acts, SERVER_VERSION, run, wk>>
    /\ Did("RecvRequestState", p)

RecvState(p) ==
    /\ Incoming(p, "state")
    /\ \E playOk \in BOOLEAN : Step(p, onState(cl[p], Head(down[p]), playOk), Taken(p))
    /\ UNCHANGED <<nextSid, acts, SERVER_VERSION, run, wk>>
    /\ Did("RecvState", p)

\* The catalog request of p's page completes with list.
LoadVideos(p) ==
    /\ ~cl[p].fetched
    /\ \E list \in Catalogs : Step(p, loadVideos(cl[p], list), down)
    /\ UNCHANGED <<nextSid, acts, SERVER_VERSION, run, wk>>
    /\ Did("LoadVideos", p)

\* The user presses play, pause, seeks or changes the speed on the player's
\* own controls; the element reports it by an event.
UserPlay(p) ==
    /\ cl[p].paused
    /\ Spend
    /\ Step(p, Play(cl[p], TRUE), down)
    /\ UNCHANGED <<nextSid, SERVER_VERSION, run, wk>>
    /\ Did("UserPlay", p)

UserPause(p) ==
    /\ ~cl[p].paused
    /\ Spend
    /\ Step(p, Pause(cl[p]), down)
    /\ UNCHANGED <<nextSid, SERVER_VERSION, run, wk>>
    /\ Did("UserPause", p)

UserSeek(p) ==
    /\ Spend
    /\ \E t \in Times \ {cl[p].currentTime} : Step(p, SetCurrentTime(cl[p], t), down)
    /\ UNCHANGED <<nextSid, SERVER_VERSION, run, wk>>
    /\ Did("UserSeek", p)

UserRate(p) ==
    /\ Spend
    /\ \E r \in Rates \ {cl[p].playbackRate} : Step(p, SetPlaybackRate(cl[p], r), down)
    /\ UNCHANGED <<nextSid, SERVER_VERSION, run, wk>>
    /\ Did("UserRate", p)

\* A queued play / pause / seeked / ratechange event reaches its listener.
MediaEvent(p) ==
    /\ \E e \in cl[p].events :
          Step(p, handleMediaEvent([cl[p] EXCEPT !.events = @ \ {e}], e), down)
    /\ UNCHANGED <<nextSid, acts, SERVER_VERSION, run, wk>>
    /\ Did("MediaEvent", p)

\* The element reports loadedmetadata for the entry being loaded.
LoadedMetadata(p) ==
    /\ cl[p].media = "loading"
    /\ \E playOk \in BOOLEAN :
          Step(p, handleLoaded([cl[p] EXCEPT !.media = "ready"], playOk), down)
    /\ UNCHANGED <<nextSid, acts, SERVER_VERSION, run, wk>>
    /\ Did("LoadedMetadata", p)

\* Playback reaches the end of the media.
Ended(p) ==
    /\ cl[p].media = "ready"
    /\ ~cl[p].paused
    /\ Spend
    /\ Step(p, handleEnded(cl[p]), down)
    /\ UNCHANGED <<nextSid, SERVER_VERSION, run, wk>>
    /\ Did("Ended", p)

Heartbeat(p) ==
    /\ Spend
    /\ Step(p, onHeartbeat(cl[p]), down)
    /\ UNCHANGED <<nextSid, SERVER_VERSION, run, wk>>
    /\ Did("Heartbeat", p)

SelectVideo(p) ==
    /\ Spend
    /\ \E value \in Range(cl[p].playlist) \ {cl[p].selectedVideo} :
          Step(p, onSelectVideo(cl[p], value), down)
    /\ UNCHANGED <<nextSid, SERVER_VERSION, run, wk>>
    /\ Did("SelectVideo", p)

TogglePlayAll(p) ==
    /\ Spend
    /\ Step(p, onTogglePlayAll(cl[p], ~cl[p].playAll), down)
    /\ UNCHANGED <<nextSid, SERVER_VERSION, run, wk>>
    /\ Did("TogglePlayAll", p)

Resync(p) ==
    /\ Spend
    /\ Step(p, onResync(cl[p]), down)
    /\ UNCHANGED <<nextSid, SERVER_VERSION, run, wk>>
    /\ Did("Resync", p)

\* A settle timer of p that is due fires.
SettleTimer(p) ==
    /\ BagIn(0, cl[p].timers)
    /\ Step(p, onSettleTimer(cl[p]), down)
    /\ UNCHANGED <<nextSid, acts, SERVER_VERSION, run, wk>>
    /\ Did("SettleTimer", p)

\* The events the element queues at once when play(), pause() or the
\* playbackRate setter is called; "seeked" waits for the seek to complete.
PromptEvents == {"play", "pause", "ratechange"}

\* TickMs pass.  A due timer fires and a queued prompt event is dispatched
\* before the clocks move on, and the clocks are only followed while some page
\* has a timer or a debounce window running.
Tick ==
    /\ \A p \in Peers : ~BagIn(0, cl[p].timers)
    /\ \A p \in Peers : cl[p].events \cap PromptEvents = {}
    /\ \E p \in Peers : cl[p].timers # EmptyBag \/ Debounced(cl[p])
    /\ cl' = [p \in Peers |-> Elapse(cl[p])]
    /\ UNCHANGED <<down, nextSid, acts, SERVER_VERSION, run, wk>>
    /\ Did("Tick", NoPeer)

\* the browsers with a page of the player open
Open == { p \in Peers : cl[p].open }

Next ==
    \/ \E p \in Open : Connect(p)
    \/ \E p \in Open : Disconnect(p)
    \/ \E p \in Open : Reload(p)
    \/ \E p \in Open : RecvRoomInfo(p)
    \/ \E p \in Open : RecvServerVersion(p)
    \/ \E p \in Open : RecvRequestState(p)
    \/ \E p \in Open : RecvState(p)
    \/ \E p \in Open : LoadVideos(p)
    \/ \E p \in Open : UserPlay(p)
    \/ \E p \in Open : UserPause(p)
    \/ \E p \in Open : UserSeek(p)
    \/ \E p \in Open : UserRate(p)
    \/ \E p \in Open : MediaEvent(p)
    \/ \E p \in Open : LoadedMetadata(p)
    \/ \E p \in Open : Ended(p)
    \/ \E p \in Open : Heartbeat(p)
    \/ \E p \in Open : SelectVideo(p)
    \/ \E p \in Open : TogglePlayAll(p)
    \/ \E p \in Open : Resync(p)
    \/ \E p \in Open : SettleTimer(p)
    \/ Tick

Spec == Init /\ [][Next]_vars

SpecRoom == InitRoom /\ [][Next]_vars

-----------------------------------------------------------------------------
(* The plain-script client: one script, no renders; every handler reads the
   live select box, toggle and player.  init() loads the catalog, pushes
   "join", asks for the version, restores the cached state and only then
   registers its listeners. *)

\* A page of the plain client whose script starts: its socket is connected
\* as sid, init() has not yet got the catalog.
PlainPage(sid, cache) ==
    [NewPage(cache) EXCEPT !.connected = TRUE, !.sid = sid, !.listening = FALSE]

\* videoSelect.value = v: the option with that value is selected, none if
\* there is no such option (the value then reads "")
selectValue(c, v) == IF v \in Range(c.playlist) THEN v ELSE NoVideo

plainSetVideo(c, filename) ==
    IF filename = NoVideo THEN c
    ELSE IF filename \in Range(c.playlist) THEN [c EXCEPT !.media = "loading"]
    ELSE [c EXCEPT !.media = "none"]

plainPushState(c, reason) == pushState(c, reason, c.selectedVideo, c.playAll)

plainApplyRemoteState(c, state, playOk) ==
    IF state.video # NoVideo /\ state.video # c.selectedVideo
    THEN LET c1 == [c EXCEPT !.syncState = SyncingLabel(state.reason),
                             !.selectedVideo = selectValue(c, state.video)]
         IN  [plainSetVideo(c1, state.video) EXCEPT !.pendingRemote = <<state>>,
                                                    !.isApplyingRemote = FALSE]
    ELSE applyRemoteState(c, state, c.selectedVideo, playOk)

\* files: the HLS-ready entries of the fetched catalog, in catalog order
plainLoadVideos(c, files) ==
    LET c1 == [c EXCEPT !.fetched = TRUE]
    IN  IF Len(files) = 0 THEN c1
        ELSE plainSetVideo([c1 EXCEPT !.playlist = files, !.selectedVideo = files[1]],
                           files[1])

plainCheckVersion(c, version) ==
    IF c.serverVersion = "" THEN [c EXCEPT !.serverVersion = version] ELSE c

plainRestoreCachedState(c, playOk) ==
    IF c.cache = <<>> THEN c
    ELSE LET cached == c.cache[1]
         IN  IF cached.video = NoVideo THEN c
             ELSE IF Len(c.playlist) # 0 /\ cached.video \notin Range(c.playlist) THEN c
             ELSE LET c1 == [c EXCEPT !.selectedVideo = selectValue(c, cached.video)]
                      desired == Snapshot(cached.video, cached.paused, cached.time,
                                          cached.playbackRate, cached.playAll, NoReason)
                  IN  plainApplyRemoteState(plainSetVideo(c1, cached.video), desired,
                                            playOk)

plainHandleLoaded(c, playOk) ==
    IF c.pendingRemote # <<>>
    THEN [plainApplyRemoteState(c, c.pendingRemote[1], playOk)
             EXCEPT !.pendingRemote = <<>>]
    ELSE c

\* A handler of the plain page of p ran and left the page as c1: the relay
\* handles what the page emitted.
PlainStep(p, c1) ==
    /\ cl' = [cl EXCEPT ![p] = [c1 EXCEPT !.outbox = <<>>]]
    /\ down' = relayAll(down, Sockets, p, c1.outbox)
    /\ UNCHANGED <<nextSid, acts, SERVER_VERSION, run, wk>>

\* init() up to its request for the version: the catalog arrives, the status
\* is set and "join" is pushed.
PlainLoadVideos(p) ==
    /\ ~cl[p].listening /\ ~cl[p].fetched
    /\ \E files \in Catalogs :
          PlainStep(p, plainPushState([plainLoadVideos(cl[p], files)
                                         EXCEPT !.status = "Connected",
                                                !.syncState = "Waiting"], "join"))
    /\ Did("PlainLoadVideos", p)

\* The rest of init(): the version arrives, the cached state is restored and
\* the listeners are registered.
PlainRestore(p) ==
    /\ ~cl[p].listening /\ cl[p].fetched
    /\ \E playOk \in BOOLEAN :
          PlainStep(p, [plainRestoreCachedState(plainCheckVersion(cl[p], SERVER_VERSION),
                                                playOk)
                          EXCEPT !.listening = TRUE])
    /\ Did("PlainRestore", p)

\* The element reports loadedmetadata; the listener hears it once registered.
PlainLoadedMetadata(p) ==
    /\ cl[p].media = "loading"
    /\ \E playOk \in BOOLEAN :
          PlainStep(p, IF cl[p].listening
                       THEN plainHandleLoaded([cl[p] EXCEPT !.media = "ready"], playOk)
                       ELSE [cl[p] EXCEPT !.media = "ready"])
    /\ Did("PlainLoadedMetadata", p)

\* A queued play / pause / seeked / ratechange event is dispatched.
PlainMediaEvent(p) ==
    /\ \E e \in cl[p].events :
          PlainStep(p, IF cl[p].listening
                       THEN plainPushState([cl[p] EXCEPT !.events = @ \ {e}], e)
                       ELSE [cl[p] EXCEPT !.events = @ \ {e}])
    /\ Did("PlainMediaEvent", p)

\* what localStorage may hold when the plain page starts
PlainCaches ==
    { <<>> } \cup
    { << [video |-> v, time |-> t, paused |-> pz, playbackRate |-> r, playAll |-> pa] >> :
        v \in Videos, t \in Times, pz \in BOOLEAN, r \in Rates, pa \in BOOLEAN }

\* One page of the plain client starts, alone in the room.
InitPlain ==
    /\ cl \in { [p \in Peers |-> IF p = Peer(1) THEN PlainPage(1, ca) ELSE NoPage] :
                  ca \in PlainCaches }
    /\ down = [p \in Peers |-> <<>>]
    /\ nextSid = 2
    /\ acts = 0
    /\ last = [op |-> "Init", peer |-> NoPeer]
    /\ SERVER_VERSION = ServerVersion
    /\ run = NoRun
    /\ wk = NoWorker

NextPlain ==
    \/ \E p \in Open : PlainLoadVideos(p)
    \/ \E p \in Open : PlainRestore(p)
    \/ \E p \in Open : PlainLoadedMetadata(p)
    \/ \E p \in Open : PlainMediaEvent(p)
    \/ \E p \in Open : SettleTimer(p)
    \/ Tick

SpecPlain == InitPlain /\ [][NextPlain]_vars

\* the "state" handler of the plain client
plainOnState(c, msg, playOk) ==
    IF msg.state = <<>> THEN c
    ELSE IF Debounced(c) THEN c
    ELSE plainApplyRemoteState(c, msg.state[1], playOk)

\* The plain page of p takes a "state" message: its handler runs, or nothing
\* hears the message while init() has not yet registered the handlers.  The
\* room is followed until MaxActs messages have been taken.
PlainRecvState(p) ==
    /\ Incoming(p, "state")
    /\ Spend
    /\ \E playOk \in BOOLEAN :
          LET c1 == IF cl[p].listening THEN plainOnState(cl[p], Head(down[p]), playOk)
                    ELSE cl[p]
          IN  /\ cl' = [cl EXCEPT ![p] = [c1 EXCEPT !.outbox = <<>>]]
              /\ down' = relayAll(Taken(p), Sockets, p, c1.outbox)
    /\ UNCHANGED <<nextSid, SERVER_VERSION, run, wk>>
    /\ Did("PlainRecvState", p)

\* A page of the plain client starts while another peer is in the room with
\* "A" loaded, paused or playing at some position.
InitPlainRoom ==
    /\ cl \in { [p \in Peers |->
                    CASE p = Peer(1) -> PlainPage(1, ca)
                      [] p = Peer(2) -> [SessionPage(2, 2) EXCEPT !.paused = pz,
                                                                 !.currentTime = t]
                      [] OTHER -> NoPage] :
                  ca \in {<<>>} \cup Caches, pz \in BOOLEAN, t \in Times }
    /\ down = [p \in Peers |-> <<>>]
    /\ nextSid = 3
    /\ acts = 0
    /\ last = [op |-> "Init", peer |-> NoPeer]
    /\ SERVER_VERSION = ServerVersion
    /\ run = NoRun
    /\ wk = NoWorker

NextPlainRoom ==
    \/ \E p \in Open : PlainLoadVideos(p)
    \/ \E p \in Open : PlainRestore(p)
    \/ \E p \in Open : PlainLoadedMetadata(p)
    \/ \E p \in Open : PlainMediaEvent(p)
    \/ \E p \in Open : PlainRecvState(p)
    \/ \E p \in Open : SettleTimer(p)
    \/ Tick

SpecPlainRoom == InitPlainRoom /\ [][NextPlainRoom]_vars

-----------------------------------------------------------------------------
(* Redeploys: the relay process is replaced by one with a new version token;
   pages learn the token from the "server-version" push on connection and
   from their poll of /api/version. *)

\* checkVersion(true) when the response carries version and the page stays
checkVersion(c, version) ==
    IF c.serverVersion = "" THEN [c EXCEPT !.serverVersion = version] ELSE c

\* The relay process is restarted: every socket is closed, what the old
\* process had sent and not delivered is lost, the new process has the next
\* token.
Restart ==
    /\ Spend
    /\ \E i \in 1..(Len(Versions) - 1) :
          SERVER_VERSION = Versions[i] /\ SERVER_VERSION' = Versions[i + 1]
    /\ cl' = [p \in Peers |-> [cl[p] EXCEPT !.connected = FALSE, !.sid = NoSid]]
    /\ down' = [p \in Peers |-> <<>>]
    /\ UNCHANGED <<nextSid, run, wk>>
    /\ Did("Restart", NoPeer)

\* The version poll of p's page (window.setInterval, every VERSION_POLL_MS)
\* gets its response.
Poll(p) ==
    /\ IF versionChanged(cl[p], VersionMsg(SERVER_VERSION))
       THEN /\ cl' = [cl EXCEPT ![p] = NewPage(captureForReload(cl[p]).cache)]
            /\ down' = closeSocket(down, Sockets, p)
       ELSE Step(p, checkVersion(cl[p], SERVER_VERSION), down)
    /\ UNCHANGED <<nextSid, acts, SERVER_VERSION, run, wk>>
    /\ Did("Poll", p)

\* a failure of checkVersion that makes the page forget its token
checkVersionFailedForgets(c) == [c EXCEPT !.serverVersion = ""]

\* checkVersion when fetch or response.json() throws: the catch block is empty
checkVersionFailed(c) == c

\* The version poll of p's page gets no response, or one that is not JSON
\* (the relay is down or restarting, the network is gone).
PollFails(p) ==
    /\ Step(p, checkVersionFailed(cl[p]), down)
    /\ UNCHANGED <<nextSid, acts, SERVER_VERSION, run, wk>>
    /\ Did("PollFails", p)

\* One peer alone with the relay.  Its page holds a cached state, or its
\* selection, play-all switch and player are any and its play-all switch was
\* last flipped, if ever, with the current selection.
InitDeploy ==
    /\ cl \in { [p \in Peers |-> IF p = Peer(1) THEN c1 ELSE NoPage] :
                  c1 \in CachedPages(1, 1) \cup
                         { c \in DriftedPages(1, 1) :
                              c.boundVideo = IF c.playAll THEN c.selectedVideo
                                             ELSE NoVideo } }
    /\ down = [p \in Peers |-> <<>>]
    /\ nextSid = 2
    /\ acts = 0
    /\ last = [op |-> "Init", peer |-> NoPeer]
    /\ SERVER_VERSION = ServerVersion
    /\ run = NoRun
    /\ wk = NoWorker

NextDeploy ==
    \/ Restart
    \/ \E p \in Open : Poll(p)
    \/ \E p \in Open : PollFails(p)
    \/ \E p \in Open : Connect(p)
    \/ \E p \in Open : Reload(p)
    \/ \E p \in Open : RecvRoomInfo(p)
    \/ \E p \in Open : RecvServerVersion(p)
    \/ \E p \in Open : LoadVideos(p)
    \/ \E p \in Open : LoadedMetadata(p)
    \/ \E p \in Open : MediaEvent(p)
    \/ \E p \in Open : SettleTimer(p)
    \/ Tick

SpecDeploy == InitDeploy /\ [][NextDeploy]_vars

-----------------------------------------------------------------------------
(* Stray messages: a message with a field missing reaches the relay (from any
   client of the socket server; the page itself sends a "request-state"
   without requester when Resync is pressed before the socket has an id) or
   reaches a page. *)

\* the messages with a field missing; sid stands for any socket id
Garbled(sid) ==
    { StateMsg(<<>>), RequestMsg(NoSid), ReplyMsg(sid, <<>>),
      ReplyMsg(NoSid, <<Snapshot("A", TRUE, 0, 1, FALSE, NoReason)>>),
      ReplyMsg(NoSid, <<>>) }

\* The relay gets a message with a field missing from the socket of p.
GarbledUp(p) ==
    /\ cl[p].connected
    /\ Spend
    /\ \E sid \in 1..MaxSid : \E msg \in Garbled(sid) :
          down' = relayMessage(down, Sockets, p, msg)
    /\ UNCHANGED <<cl, nextSid, SERVER_VERSION, run, wk>>
    /\ Did("GarbledUp", p)

\* A "state" without state or a "request-state" without requester is on its
\* way to p.
GarbledDown(p) ==
    /\ cl[p].connected
    /\ Spend
    /\ \E msg \in {StateMsg(<<>>), RequestMsg(NoSid)} :
          down' = [down EXCEPT ![p] = Append(@, msg)]
    /\ UNCHANGED <<cl, nextSid, SERVER_VERSION, run, wk>>
    /\ Did("GarbledDown", p)

NextStray ==
    \/ Next
    \/ \E p \in Open : GarbledUp(p)
    \/ \E p \in Open : GarbledDown(p)

SpecStray == InitRoom /\ [][NextStray]_vars

-----------------------------------------------------------------------------
(* Runs that go on for ever: the heartbeat interval keeps firing, and what
   the browser and the network owe is eventually done. *)

\* Nothing is under way: no message waits, no event is queued, no timer and
\* no debounce window is running.
Quiescent ==
    /\ \A p \in Peers : down[p] = <<>>
    /\ \A p \in Open : /\ cl[p].events = {} /\ cl[p].timers = EmptyBag
                       /\ ~Debounced(cl[p]) /\ cl[p].media # "loading"
                       /\ cl[p].connected /\ cl[p].fetched

\* The heartbeat interval of p's page fires (window.setInterval, every
\* HEARTBEAT_MS for as long as the page is mounted).  HEARTBEAT_MS is 3000 ms,
\* long against the settle delay and the debounce window: what a tick set off
\* has run its course when the next tick comes.
Interval(p) ==
    /\ Quiescent
    /\ Step(p, onHeartbeat(cl[p]), down)
    /\ UNCHANGED <<nextSid, acts, SERVER_VERSION, run, wk>>
    /\ Did("Interval", p)

\* Two peers in a session and in step, at the same position of "A" and both
\* paused or both playing; the play-all switch of p1 and the closure of its
\* player event handlers are any.
InitLive ==
    /\ cl \in { [p \in Peers |-> CASE p = "p1" -> c1
                                  [] p = "p2" -> [SessionPage(2, 2)
                                                    EXCEPT !.paused = c1.paused]
                                  [] OTHER -> NoPage] :
                  c1 \in { c \in DriftedPages(1, 2) :
                              c.selectedVideo = "A" /\ c.currentTime = 0 } }
    /\ down = [p \in Peers |-> <<>>]
    /\ nextSid = 3
    /\ acts = 0
    /\ last = [op |-> "Init", peer |-> NoPeer]
    /\ SERVER_VERSION = ServerVersion
    /\ run = NoRun
    /\ wk = NoWorker

NextLive ==
    \/ Next
    \/ \E p \in Open : Interval(p)

\* What the browser and the network owe to the page of p: a message the relay
\* has sent is handled, a queued event is dispatched, a due timer fires, a
\* pending load and a pending catalog request complete, a lost socket
\* reconnects, the interval fires.
Owed(p) ==
    \/ RecvRoomInfo(p) \/ RecvServerVersion(p) \/ RecvRequestState(p) \/ RecvState(p)
    \/ LoadVideos(p) \/ MediaEvent(p) \/ LoadedMetadata(p) \/ SettleTimer(p)
    \/ Connect(p)

\* every page's event loop goes on and time passes
Delivery ==
    /\ \A p \in Peers : WF_vars(cl[p].open /\ Owed(p))
    /\ WF_vars(Tick)

Fairness ==
    /\ Delivery
    /\ \A p \in Peers : WF_vars(cl[p].open /\ Interval(p))

SpecLive == InitLive /\ [][NextLive]_vars /\ Fairness

\* Two peers in a session, each paused or playing.
InitJoin ==
    /\ cl \in { [p \in Peers |-> CASE p = "p1" -> [SessionPage(1, 2) EXCEPT !.paused = pz1]
                                  [] p = "p2" -> [SessionPage(2, 2) EXCEPT !.paused = pz2]
                                  [] OTHER -> NoPage] :
                  pz1 \in BOOLEAN, pz2 \in BOOLEAN }
    /\ down = [p \in Peers |-> <<>>]
    /\ nextSid = 3
    /\ acts = 0
    /\ last = [op |-> "Init", peer |-> NoPeer]
    /\ SERVER_VERSION = ServerVersion
    /\ run = NoRun
    /\ wk = NoWorker

\* joining, leaving and asking for the others' state
NextJoin ==
    \/ \E p \in Open : Connect(p)
    \/ \E p \in Open : Disconnect(p)
    \/ \E p \in Open : Reload(p)
    \/ \E p \in Open : Resync(p)
    \/ \E p \in Open : RecvRoomInfo(p)
    \/ \E p \in Open : RecvServerVersion(p)
    \/ \E p \in Open : RecvRequestState(p)
    \/ \E p \in Open : RecvState(p)
    \/ \E p \in Open : LoadVideos(p)
    \/ \E p \in Open : LoadedMetadata(p)
    \/ \E p \in Open : MediaEvent(p)
    \/ \E p \in Open : SettleTimer(p)
    \/ Tick

SpecJoin == InitJoin /\ [][NextJoin]_vars /\ Delivery

-----------------------------------------------------------------------------
(* Properties *)

\* the number of "state" messages in a queue
StatesIn(queue) == Len(SelectSeq(queue, LAMBDA m : m.type = "state"))

\* In this step a "state" message of p went to the relay (and on to the
\* others), or into p's send buffer.
StateSent(p) ==
    \/ \E q \in Peers \ {p} : StatesIn(down'[q]) > StatesIn(down[q])
    \/ StatesIn(cl'[p].outbox) > StatesIn(cl[p].outbox)

\* the steps taken by the player's events, the heartbeat and the user
LocalOps == {"MediaEvent", "Ended", "Heartbeat", "SelectVideo", "TogglePlayAll",
             "UserPlay", "UserPause", "UserSeek", "UserRate"}

\* C1: while the guard isApplyingRemote of a peer is held, no player event,
\* heartbeat tick or user action at that peer emits a "state" message, and the
\* time of the peer's last local push is not updated.
C1_GuardSuppressesPush ==
    [][\A p \in Peers :
          (cl[p].isApplyingRemote /\ last'.peer = p /\ last'.op \in LocalOps)
              => (~StateSent(p) /\ cl'[p].sincePush = cl[p].sincePush)]_vars

\* C1: a player event has just reached its listener on a connected page that
\* holds the guard, with another peer connected.
C1_Witness ==
    \E p \in Peers :
        /\ last = [op |-> "MediaEvent", peer |-> p]
        /\ cl[p].isApplyingRemote /\ cl[p].connected
        /\ \E q \in Peers \ {p} : cl[q].connected

\* what a page plays and what the sync engine holds for it
Playback(c) ==
    [ time |-> c.currentTime, paused |-> c.paused, playbackRate |-> c.playbackRate,
      video |-> c.selectedVideo, playAll |-> c.playAll, pending |-> c.pendingRemote,
      guard |-> c.isApplyingRemote, cache |-> c.cache ]

\* C2: a "state" message a peer receives less than 150 ms after its own last
\* local push is discarded: time, paused, playbackRate, selected video,
\* playAll, pending state, guard and cached state stay as they are.
C2_DebounceDiscards ==
    [][\A p \in Peers :
          (last'.op = "RecvState" /\ last'.peer = p /\ cl[p].sincePush < DebounceMs)
              => Playback(cl'[p]) = Playback(cl[p])]_vars

\* C2: a peer has just handled a "state" message inside its debounce window.
C2_Witness ==
    \E p \in Peers :
        /\ last = [op |-> "RecvState", peer |-> p]
        /\ cl[p].sincePush < DebounceMs

\* The remote states handed to applyRemoteState at p in this step: the one of
\* a "state" message that passes the debounce test, or the pending one when
\* the element reports loaded metadata.
AppliedIn(p) ==
    IF last'.peer # p THEN {}
    ELSE IF last'.op = "RecvState"
         THEN IF Head(down[p]).state # <<>> /\ ~Debounced(cl[p])
              THEN {Head(down[p]).state[1]} ELSE {}
    ELSE IF last'.op = "LoadedMetadata"
         THEN Range(cl[p].pendingRemote)
    ELSE {}

\* the video p's element has loaded, or is reporting as loaded in this step
LoadedVideo(p) ==
    IF cl[p].media = "ready" \/ last'.op = "LoadedMetadata"
    THEN selectedEntry(cl[p]) ELSE NoVideo

\* C3: when a remote state naming the currently loaded video is applied, the
\* playhead is written (set to the remote time) if and only if local and
\* remote time differ by more than 0.35 s.
C3_SeekIffBeyondTolerance ==
    [][\A p \in Peers : \A state \in AppliedIn(p) :
          (state.video # NoVideo /\ state.video = LoadedVideo(p))
              => IF Abs(cl[p].currentTime - state.time) > SYNC_THRESHOLD
                 THEN cl'[p].currentTime = state.time
                 ELSE cl'[p].currentTime = cl[p].currentTime]_vars

\* C4: applying a remote state that names another video than the selected one
\* only selects that video and stores the snapshot as pending: time, paused,
\* playbackRate, playAll and the cached state are left alone, and the guard is
\* not held when the step is over.
C4_DeferralOnlySelects ==
    [][\A p \in Peers : \A state \in AppliedIn(p) :
          (state.video # NoVideo /\ state.video # cl[p].selectedVideo)
              => /\ cl'[p].selectedVideo = state.video
                 /\ cl'[p].pendingRemote = <<state>>
                 /\ cl'[p].currentTime = cl[p].currentTime
                 /\ cl'[p].paused = cl[p].paused
                 /\ cl'[p].playbackRate = cl[p].playbackRate
                 /\ cl'[p].playAll = cl[p].playAll
                 /\ cl'[p].cache = cl[p].cache
                 /\ ~cl'[p].isApplyingRemote]_vars

\* C5: when the video a deferred snapshot names reports loaded metadata, the
\* pending snapshot is applied with its own values: afterwards paused and
\* playbackRate equal the snapshot's, the time is within 0.35 s of the
\* snapshot's, and nothing is pending.
C5_PendingAppliedOnLoaded ==
    [][\A p \in Peers :
          (last'.op = "LoadedMetadata" /\ last'.peer = p) =>
              \A state \in Range(cl[p].pendingRemote) :
                  state.video = selectedEntry(cl[p])
                      => /\ cl'[p].paused = state.paused
                         /\ cl'[p].playbackRate = state.playbackRate
                         /\ Abs(cl'[p].currentTime - state.time) <= SYNC_THRESHOLD
                         /\ cl'[p].pendingRemote = <<>>]_vars

\* the entry after x in list, the first entry when x is the last one or is
\* not in list
CyclicSuccessor(list, x) ==
    IF \E i \in 1..(Len(list) - 1) : list[i] = x
    THEN list[(CHOOSE i \in 1..(Len(list) - 1) : list[i] = x) + 1]
    ELSE list[1]

\* C6: when the media ends on a peer with playAll on and a catalog that is
\* not empty, the peer selects the cyclic successor of its selected video.
C6_EndedSelectsSuccessor ==
    [][\A p \in Peers :
          (last'.op = "Ended" /\ last'.peer = p /\ cl[p].playAll
               /\ cl[p].playlist # <<>>)
              => cl'[p].selectedVideo
                     = CyclicSuccessor(cl[p].playlist, cl[p].selectedVideo)]_vars

\* C7: a peer that receives a "request-state" naming another peer X as the
\* requester answers with one reply, and the relay hands the snapshot of that
\* reply to X alone: one "state" message joins the queue of X, no queue of
\* another peer gets anything.
C7_ReplyReachesRequesterOnly ==
    [][\A p \in Peers :
          (last'.op = "RecvRequestState" /\ last'.peer = p
               /\ Head(down[p]).requester \notin {NoSid, cl[p].sid})
              => \A q \in Peers :
                    IF q = p THEN down'[q] = Tail(down[q])
                    ELSE IF cl[q].connected /\ cl[q].sid = Head(down[p]).requester
                    THEN /\ Len(down'[q]) = Len(down[q]) + 1
                         /\ SubSeq(down'[q], 1, Len(down[q])) = down[q]
                         /\ down'[q][Len(down'[q])].type = "state"
                    ELSE down'[q] = down[q]]_vars

\* C7: a peer has just answered a request, the snapshot is the last message
\* in the requester's queue, and a third peer is connected.
C7_Witness ==
    \E p, q, r \in Peers :
        /\ Cardinality({p, q, r}) = 3
        /\ last = [op |-> "RecvRequestState", peer |-> p]
        /\ cl[p].connected /\ cl[q].connected /\ cl[r].connected
        /\ down[q] # <<>>
        /\ down[q][Len(down[q])].type = "state"
        /\ (down[r] = <<>> \/ down[r][Len(down[r])].type # "state")

\* C8: a snapshot collected from one player and applied, as received, to a
\* second player that has the snapshot's video loaded leaves the second
\* player with the snapshot's paused and playbackRate and with a time within
\* 0.35 s of the snapshot's.
C8_RoundTrip ==
    [][\A p \in Peers : \A state \in AppliedIn(p) :
          (last'.op = "RecvState" /\ state.video # NoVideo
               /\ state.video = LoadedVideo(p))
              => /\ cl'[p].paused = state.paused
                 /\ cl'[p].playbackRate = state.playbackRate
                 /\ Abs(cl'[p].currentTime - state.time) <= SYNC_THRESHOLD]_vars

\* what the cached state could seed on a page
Seeded(c) ==
    [ video |-> c.selectedVideo, time |-> c.currentTime, paused |-> c.paused,
      playbackRate |-> c.playbackRate, playAll |-> c.playAll,
      pending |-> c.pendingRemote ]

\* C9: when the catalog is loaded and the cached state names a video that is
\* not in it, the cached state is ignored: selected video, time, paused,
\* playbackRate, playAll and pending state are what they are on a page without
\* a cache entry.  In the React client the cache is read in the step that
\* loads the catalog, in the plain client in a later step of its own.
C9_ForeignCacheIgnored ==
    [][\A p \in Peers : \A cached \in Range(cl[p].cache) :
          /\ (last'.op = "LoadVideos" /\ last'.peer = p
                  /\ cached.video \notin Range(cl'[p].playlist))
                => Seeded(cl'[p])
                     = Seeded(loadVideos([cl[p] EXCEPT !.cache = <<>>], cl'[p].playlist))
          /\ (last'.op = "PlainRestore" /\ last'.peer = p
                  /\ cached.video \notin Range(cl[p].playlist))
                => Seeded(cl'[p]) = Seeded(cl[p])]_vars

\* The steps in which p certainly hands a "state" message to the relay: a
\* player event, a new selection or a flip of the play-all switch, or a
\* heartbeat tick while playing, on a connected page that does not hold the
\* guard.
Pushes(p) ==
    /\ last'.peer = p /\ cl[p].connected /\ ~cl[p].isApplyingRemote
    /\ \/ last'.op \in {"MediaEvent", "SelectVideo", "TogglePlayAll"}
       \/ last'.op = "Heartbeat" /\ ~cl[p].paused

\* a local step of p after which some queue of the relay is not what it was
Delivers(p) ==
    /\ last'.peer = p /\ last'.op \in LocalOps /\ cl[p].connected
    /\ down' # down

\* C10: a "state" message that a peer hands to the relay reaches every other
\* peer connected at that moment with its snapshot unchanged, and does not
\* come back to the sender.
C10_StateBroadcast ==
    [][\A p \in Peers :
          (Pushes(p) \/ Delivers(p))
              => \E reason \in {"play", "pause", "seeked", "ratechange", "heartbeat",
                                 "video-change", "play-all", "auto-next"},
                    v \in {NoVideo} \cup Videos, pa \in BOOLEAN :
                    \A q \in Peers :
                       down'[q] = IF q # p /\ cl[q].connected
                                  THEN Append(down[q],
                                         StateMsg(<<[collectState(cl[p], v, pa)
                                                       EXCEPT !.reason = reason]>>))
                                  ELSE down[q]]_vars

\* C10: with three peers connected, a player event of one of them has just
\* been pushed: the snapshot is the last message in both other queues and the
\* sender's queue is empty.
C10_Witness ==
    \E p \in Peers :
        /\ last = [op |-> "MediaEvent", peer |-> p]
        /\ \A q \in Peers : cl[q].connected
        /\ down[p] = <<>>
        /\ \A q \in Peers \ {p} :
              /\ down[q] # <<>>
              /\ down[q][Len(down[q])].type = "state"
              /\ down[q][Len(down[q])].state[1].time = cl[p].currentTime
              /\ down[q][Len(down[q])].state[1].paused = cl[p].paused

\* the video p's element has loaded
Loaded(p) == IF cl[p].media = "ready" THEN selectedEntry(cl[p]) ELSE NoVideo

\* the connected peers
Connected == { p \in Peers : cl[p].open /\ cl[p].connected }

SameVideoLoaded ==
    \A p, q \in Connected : Loaded(p) # NoVideo /\ Loaded(p) = Loaded(q)

InStep ==
    \A p, q \in Connected :
        /\ cl[p].paused = cl[q].paused
        /\ cl[p].playbackRate = cl[q].playbackRate
        /\ Abs(cl[p].currentTime - cl[q].currentTime) <= SYNC_THRESHOLD

\* C11: in a run in which, from some point on, all connected peers have the
\* same video loaded (local user actions stop in every run, and every message
\* of the relay is delivered), the peers are eventually in step for good: same
\* paused flag, same playbackRate, times at most 0.35 s apart.
C11_EventuallyInStep == (<>[]SameVideoLoaded) => (<>[]InStep)

\* the version token p observes in this step, "" if it observes none
TokenSeen(p) ==
    IF last'.peer # p THEN ""
    ELSE IF last'.op = "RecvServerVersion" THEN Head(down[p]).version
    ELSE IF last'.op = "Poll" THEN SERVER_VERSION
    ELSE ""

\* the cache entry that holds the playback state of page c
Captured(c) ==
    << [video |-> c.selectedVideo, time |-> c.currentTime, paused |-> c.paused,
        playbackRate |-> c.playbackRate, playAll |-> c.playAll] >>

\* C12: the first version token a page observes, by push or by poll, is
\* stored and nothing else changes (no reload, no cache write); a later token
\* equal to the stored one changes nothing; a later token that differs makes
\* the page write its current playback state to the cache and then reload, so
\* that the new page starts with that cache entry.
C12_VersionTokens ==
    [][\A p \in Peers :
          TokenSeen(p) # "" =>
              IF cl[p].serverVersion = ""
              THEN cl'[p] = [cl[p] EXCEPT !.serverVersion = TokenSeen(p)]
              ELSE IF TokenSeen(p) = cl[p].serverVersion
              THEN cl'[p] = cl[p]
              ELSE cl'[p] = NewPage(IF cl[p].selectedVideo = NoVideo
                                    THEN cl[p].cache ELSE Captured(cl[p]))]_vars

\* p observes a token that differs from the one it has stored: it reloads
VersionReload(p) ==
    /\ TokenSeen(p) # "" /\ cl[p].serverVersion # ""
    /\ TokenSeen(p) # cl[p].serverVersion

\* the fresh page c once its catalog request has returned list and the entry
\* it then loads has reported loaded metadata
Restored(c, list, playOk) ==
    LET c1 == Commit(c, loadVideos(c, list))
    IN  Commit(c1, handleLoaded([c1 EXCEPT !.media = "ready"], playOk))

\* C13: after a version-change reload with the captured video still in the
\* catalog, the new page selects the captured video and, once that video has
\* reported loaded metadata (play() allowed), has the captured paused flag and
\* playbackRate and a time within 0.35 s of the captured time.
C13_ReloadKeepsPlayback ==
    [][\A p \in Peers :
          (VersionReload(p) /\ cl[p].selectedVideo # NoVideo) =>
              \A list \in Catalogs :
                  cl[p].selectedVideo \in Range(list) =>
                      LET r == Restored(cl'[p], list, TRUE)
                      IN  /\ r.selectedVideo = cl[p].selectedVideo
                          /\ r.paused = cl[p].paused
                          /\ r.playbackRate = cl[p].playbackRate
                          /\ Abs(r.currentTime - cl[p].currentTime)
                                 <= SYNC_THRESHOLD]_vars

\* In this step p hands one "state" message tagged reason with its live
\* paused flag, time and playbackRate to its socket: the relay passes it to
\* every other connected peer, or it waits in the send buffer of a page that
\* is not connected.
StateHanded(p, reason) ==
    \E v \in {NoVideo} \cup Videos, pa \in BOOLEAN :
        LET msg == StateMsg(<<[collectState(cl[p], v, pa) EXCEPT !.reason = reason]>>)
        IN  IF cl[p].connected
            THEN \A q \in Peers :
                    down'[q] = IF q # p /\ cl[q].connected
                               THEN Append(down[q], msg) ELSE down[q]
            ELSE /\ cl'[p].outbox = Append(cl[p].outbox, msg)
                 /\ down' = down

HeartbeatSent(p) == StateHanded(p, "heartbeat")

\* In this step p hands nothing to its socket.
NothingSent(p) == down' = down /\ cl'[p].outbox = cl[p].outbox

\* C14 (as amended): on a heartbeat tick at which the player is playing and
\* the guard is not held, the peer broadcasts one "state" message tagged
\* "heartbeat"; on a tick at which the player is paused, or the guard is held,
\* it broadcasts nothing.
C14_HeartbeatWhilePlaying ==
    [][\A p \in Peers :
          (last'.op = "Heartbeat" /\ last'.peer = p) =>
              IF ~cl[p].paused /\ ~cl[p].isApplyingRemote
              THEN HeartbeatSent(p) ELSE NothingSent(p)]_vars

\* C14 (as stated): on every heartbeat tick at which the player is playing
\* the peer broadcasts a "state" message tagged "heartbeat"; on a tick at
\* which it is paused it broadcasts nothing.
C14_HeartbeatEveryTick ==
    [][\A p \in Peers :
          (last'.op = "Heartbeat" /\ last'.peer = p) =>
              IF ~cl[p].paused THEN HeartbeatSent(p) ELSE NothingSent(p)]_vars

\* C14: a heartbeat tick has just fired on a playing page that does not hold
\* the guard, and the last message in another peer's queue is its heartbeat.
C14_Witness ==
    \E p \in Peers :
        /\ last = [op |-> "Heartbeat", peer |-> p]
        /\ ~cl[p].paused /\ ~cl[p].isApplyingRemote /\ cl[p].connected
        /\ \E q \in Peers \ {p} :
              /\ cl[q].connected /\ down[q] # <<>>
              /\ down[q][Len(down[q])].type = "state"
              /\ down[q][Len(down[q])].state[1].reason = "heartbeat"
              /\ ~down[q][Len(down[q])].state[1].paused

\* the tags a snapshot may carry, NoReason for none
Reasons == {NoReason, "play", "pause", "seeked", "ratechange", "heartbeat",
            "video-change", "play-all", "auto-next", "join"}

Retagged(state, reason) == [state EXCEPT !.reason = reason]

\* what the protocol has decided on a page: its playback and sync state, the
\* tag of the pending snapshot left aside
Decided(c) ==
    [Playback(c) EXCEPT !.pending = [i \in DOMAIN @ |-> Retagged(@[i], NoReason)]]

\* the peers whose queue is longer in q1 than in q0
Recipients(q0, q1) == { q \in Peers : Len(q1[q]) > Len(q0[q]) }

\* C15: the reason tag of a snapshot decides nothing.  Had the snapshot a
\* peer receives, or the pending snapshot it applies on loaded metadata,
\* carried any other tag, the peer would end with the same time, paused flag,
\* playbackRate, selected video, playAll, pending state, guard and cached
\* state; and had a snapshot handed to the relay carried any other tag, the
\* relay would forward it to the same recipients.
C15_ReasonNeverDecides ==
    [][\A p \in Peers : \A reason \in Reasons :
          /\ (last'.op = "RecvState" /\ last'.peer = p /\ Head(down[p]).state # <<>>)
                => \E playOk \in BOOLEAN :
                      Decided(cl'[p]) =
                          Decided(Commit(cl[p],
                              onState(cl[p],
                                      StateMsg(<<Retagged(Head(down[p]).state[1], reason)>>),
                                      playOk)))
          /\ (last'.op = "LoadedMetadata" /\ last'.peer = p /\ cl[p].pendingRemote # <<>>)
                => \E playOk \in BOOLEAN :
                      Decided(cl'[p]) =
                          Decided(Commit(cl[p],
                              handleLoaded([cl[p] EXCEPT
                                              !.media = "ready",
                                              !.pendingRemote =
                                                  <<Retagged(@[1], reason)>>],
                                           playOk)))
          /\ (last'.op \in LocalOps /\ last'.peer = p /\ cl[p].connected)
                => \A q \in Recipients(down, down') :
                      Recipients(down, down') =
                          Recipients(down,
                              relayMessage(down, Sockets, p,
                                  StateMsg(<<Retagged(down'[q][Len(down'[q])].state[1],
                                                      reason)>>)))
          /\ (last'.op = "RecvRequestState" /\ last'.peer = p)
                => \A q \in Recipients(Taken(p), down') :
                      Recipients(Taken(p), down') =
                          Recipients(Taken(p),
                              relayMessage(Taken(p), Sockets, p,
                                  ReplyMsg(Head(down[p]).requester,
                                      <<Retagged(down'[q][Len(down'[q])].state[1],
                                                 reason)>>)))]_vars

\* C15: a peer has just applied a received snapshot that carries a tag: the
\* guard is held and the status line shows the tag.
C15_Witness ==
    \E p \in Peers :
        /\ last = [op |-> "RecvState", peer |-> p]
        /\ cl[p].isApplyingRemote
        /\ \E reason \in Reasons \ {NoReason} : cl[p].syncState = SyncingLabel(reason)

Untouched ==
    \A i \in 1..3 : \E pz \in BOOLEAN :
        cl[Peer(i)] = [SessionPage(i, 3) EXCEPT !.paused = pz]

C17_EventPushesOnce ==
    [][\A p \in Peers :
          (last'.op = "MediaEvent" /\ last'.peer = p /\ ~cl[p].isApplyingRemote)
              => /\ \E e \in cl[p].events \ cl'[p].events : StateHanded(p, e)
                 /\ cl'[p].sincePush = 0]_vars

\* C17: an event of p's player has just been pushed: p's last local push is
\* now, and the last message in the other peer's queue carries the event's
\* name and p's live values.
C17_Witness ==
    \E p \in Peers :
        /\ last = [op |-> "MediaEvent", peer |-> p]
        /\ cl[p].connected /\ ~cl[p].isApplyingRemote /\ cl[p].sincePush = 0
        /\ \E q \in Peers \ {p} :
              /\ cl[q].connected /\ down[q] # <<>>
              /\ LET m == down[q][Len(down[q])]
                 IN  /\ m.type = "state"
                     /\ m.state[1].reason \in {"play", "pause", "seeked", "ratechange"}
                     /\ m.state[1].time = cl[p].currentTime
                     /\ m.state[1].paused = cl[p].paused
                     /\ m.state[1].playbackRate = cl[p].playbackRate

\* p has just connected, or its user has just pressed Resync on the connected
\* page, with another peer connected
Requested(p) ==
    /\ last.peer = p /\ last.op \in {"Connect", "Resync"}
    /\ cl[p].connected
    /\ \E q \in Peers \ {p} : cl[q].connected

\* a snapshot a peer collected in answer to a request (it carries no reason)
\* is on its way to p
ReplyOnTheWay(p) ==
    \E i \in 1..Len(down[p]) :
        down[p][i].type = "state" /\ down[p][i].state[1].reason = NoReason

\* p has just handled a "state" message
StateHandled(p) == last = [op |-> "RecvState", peer |-> p]

\* C18: when a peer connects, or asks for a resync, while another peer is
\* connected, a "request-state" naming the requester's own socket is put on
\* the way to every other connected peer, an existing peer's snapshot is then
\* sent to the requester, and the requester gets it (as long as no
\* connection is lost, no page reloaded and no user steps in meanwhile).
C18_RequestIsAnswered ==
    /\ [][\A p \in Peers :
            (last'.peer = p /\ last'.op \in {"Connect", "Resync"} /\ cl'[p].connected)
                => \A q \in Peers \ {p} :
                      cl[q].connected =>
                          \E i \in (Len(down[q]) + 1)..Len(down'[q]) :
                              down'[q][i] = RequestMsg(cl'[p].sid)]_vars
    /\ \A p \in Peers : \A k \in 0..MaxActs :
          /\ (Requested(p) /\ acts = k) ~> (ReplyOnTheWay(p) \/ acts > k)
          /\ (ReplyOnTheWay(p) /\ acts = k) ~> (StateHandled(p) \/ acts > k)

\* C18: a peer that had asked for the others' state has just handled the
\* snapshot of an answer: it applied a snapshot that carries no reason.
C18_Witness ==
    \E p \in Peers :
        /\ StateHandled(p)
        /\ cl[p].isApplyingRemote /\ cl[p].syncState = SyncingLabel(NoReason)
        /\ \A q \in Peers \ {p} : ~ReplyOnTheWay(q)

----------------------------------------------------------------------------
(* The peer count *)

\* the positions of the room-info messages on their way to p
CountsOnTheWay(p) == { i \in DOMAIN down[p] : down[p][i].type = "room-info" }

\* the count of the last room-info the relay sent to p: the last one on its
\* way, or the one p handled last when none is on its way
LastCount(p) ==
    IF CountsOnTheWay(p) = {} THEN cl[p].peers
    ELSE down[p][CHOOSE i \in CountsOnTheWay(p) :
                    \A j \in CountsOnTheWay(p) : j <= i].count

\* the socket of p was opened or closed in the step just taken
SocketChanged(p) == cl'[p].connected # cl[p].connected

\* C19: each time a peer connects or disconnects, the relay sends every
\* connected peer a room-info whose count is the number of peers connected at
\* that moment; so the count of the last room-info sent to a connected peer,
\* which is the count the peer shows once it has handled what is on its way,
\* always equals the number of connected peers.
C19_CountIsCurrent ==
    /\ [][\A p \in Peers :
            SocketChanged(p)
                => \A q \in DOMAIN Sockets' :
                      \E i \in (Len(down[q]) + 1)..Len(down'[q]) :
                          down'[q][i] = RoomInfoMsg(clientsCount(Sockets'))]_vars
    /\ [](\A p \in DOMAIN Sockets : LastCount(p) = clientsCount(Sockets))

\* A peer left and came back, and the peer that stayed has handled both
\* counts.
C19_Witness ==
    /\ last.op = "RecvRoomInfo"
    /\ nextSid > 3
    /\ \E p \in DOMAIN Sockets :
          /\ p = last.peer /\ cl[p].sid < 3
          /\ CountsOnTheWay(p) = {}
          /\ cl[p].peers = 2 /\ clientsCount(Sockets) = 2

----------------------------------------------------------------------------
(* The settle delay *)

\* a settle timer of the page c still has time to run
TimerRunning(c) == \E left \in BagToSet(c.timers) : left > 0

\* a settle timer of p has fired in the step just taken
Settled(p) == last'.op = "SettleTimer" /\ last'.peer = p

\* C20: if a second remote state is applied while the settle timer of an
\* earlier application is still pending, the guard stays held until the
\* settle delay after the second application has elapsed: a settle timer that
\* fires while a later one still has time to run does not release the guard.
C20_GuardHeldFullDelay ==
    [][\A p \in Peers :
          (Settled(p) /\ cl[p].isApplyingRemote /\ TimerRunning(cl'[p]))
              => cl'[p].isApplyingRemote]_vars

\* The guard of a page is released while a settle timer of the page still has
\* time to run.
C20_ReleasedEarly ==
    \E p \in Peers :
        /\ last.op = "SettleTimer" /\ last.peer = p
        /\ ~cl[p].isApplyingRemote
        /\ TimerRunning(cl[p])

----------------------------------------------------------------------------
(* Pending snapshots *)

\* the step just taken reconciled the player of p to state: the guard is held
\* and rate and time are the snapshot's (paused too, unless play() was
\* rejected)
ReconciledTo(p, state) ==
    /\ cl'[p].isApplyingRemote
    /\ cl'[p].playbackRate = state.playbackRate
    /\ Abs(cl'[p].currentTime - state.time) <= SYNC_THRESHOLD
    /\ state.paused => cl'[p].paused

\* C21: a remote snapshot stored as pending is later applied (time, paused
\* and playbackRate reconciled) or replaced by a newer pending snapshot; while
\* the page lives, no step of the page drops it unapplied.
C21_PendingNeverDropped ==
    [][\A p \in Peers :
          \A state \in Range(cl[p].pendingRemote) :
              (last'.peer = p /\ last'.op # "Reload")
                  => \/ cl'[p].pendingRemote # <<>>
                     \/ ReconciledTo(p, state)]_vars

\* A pending snapshot of p that a peer sent (a pushed state carries its
\* reason; the one restored from the cache has none).  The deferral that
\* stores a snapshot as pending releases the guard, so while the guard is held
\* and a snapshot is pending, a snapshot received after the pending one
\* has been reconciled.
PendingReceived(p) == { state \in Range(cl[p].pendingRemote) : state.reason # NoReason }

\* C22: a peer applies remote snapshots in the order it received them: once
\* it has reconciled time, paused and playbackRate to a snapshot, it does not
\* afterwards reconcile them to a snapshot it received earlier, such as one
\* held as pending while the later snapshot arrived.
C22_AppliedInOrder ==
    [][\A p \in Peers :
          (last'.peer = p /\ last'.op = "LoadedMetadata" /\ cl[p].isApplyingRemote)
              => \A state \in PendingReceived(p) : ~ReconciledTo(p, state)]_vars

----------------------------------------------------------------------------
(* The debounce window on both paths *)

\* the remote snapshots the handler of the step at p is given: the one of a
\* "state" message, or the received one that is pending when the element
\* reports loaded metadata
RemoteIn(p) ==
    IF last'.peer # p THEN {}
    ELSE IF last'.op = "RecvState" THEN Range(Head(down[p]).state)
    ELSE IF last'.op = "LoadedMetadata" THEN PendingReceived(p)
    ELSE {}

\* what the element plays
Player(c) == <<c.currentTime, c.paused, c.playbackRate>>

\* C23: no remote snapshot's time, paused or playbackRate is written to the
\* local player less than 150 ms after the peer's own last local push, whether
\* the snapshot comes in a "state" message or is the pending one applied on
\* loaded metadata.
C23_NoWriteInDebounce ==
    [][\A p \in Peers :
          (RemoteIn(p) # {} /\ Debounced(cl[p]))
              => Player(cl'[p]) = Player(cl[p])]_vars

----------------------------------------------------------------------------
(* What the snapshots sent carry *)

\* the snapshots the step puts on the way to q
SnapshotsSentTo(q) ==
    { down'[q][i].state[1] : i \in { j \in (Len(down[q]) + 1)..Len(down'[q]) :
                                        down'[q][j].type = "state" } }

\* C24: every snapshot a page sends in a "reply-state" or as a heartbeat
\* carries as video the page's selected video and as playAll the page's
\* playAll value at the moment it is sent.
C24_ReplyAndHeartbeatCurrent ==
    [][\A p \in Peers :
          (last'.peer = p /\ last'.op \in {"RecvRequestState", "Heartbeat"})
              => \A q \in Peers \ {p} : \A state \in SnapshotsSentTo(q) :
                    /\ state.video = cl[p].selectedVideo
                    /\ state.playAll = cl[p].playAll]_vars

\* C25: the "state" message pushed right after a selection change carries the
\* new value: after auto-advance or a user's video selection its video is the
\* newly selected video, after a play-all toggle its playAll is the new value
\* of the switch; with playAll off, the end of the media selects nothing and
\* pushes nothing.
C25_PushCarriesNewSelection ==
    [][\A p \in Peers :
          last'.peer = p =>
              /\ last'.op \in {"SelectVideo", "Ended"}
                    => \A q \in Peers \ {p} : \A state \in SnapshotsSentTo(q) :
                          state.video = cl'[p].selectedVideo
              /\ last'.op = "TogglePlayAll"
                    => \A q \in Peers \ {p} : \A state \in SnapshotsSentTo(q) :
                          state.playAll = cl'[p].playAll
              /\ (last'.op = "Ended" /\ ~cl[p].playAll)
                    => /\ cl'[p].selectedVideo = cl[p].selectedVideo
                       /\ NothingSent(p)]_vars

----------------------------------------------------------------------------
(* The cached state *)

\* the cache entry that holds the values of state
CacheOf(state) ==
    << [video |-> state.video, time |-> state.time, paused |-> state.paused,
        playbackRate |-> state.playbackRate, playAll |-> state.playAll] >>

\* C26: after every application of a remote state that is not deferred (the
\* guard is held when the handler is over) the cached state holds the state's
\* video, time, paused, playbackRate and playAll; a deferred application
\* leaves the cache as it is.
C26_AppliedStateIsCached ==
    [][\A p \in Peers : \A state \in AppliedIn(p) :
          IF cl'[p].isApplyingRemote
          THEN cl'[p].cache = CacheOf(state)
          ELSE cl'[p].cache = cl[p].cache]_vars

----------------------------------------------------------------------------
(* The guard is released *)

\* the status of p shows a remote state being applied
Syncing(p) == cl[p].syncState \in { SyncingLabel(reason) : reason \in Reasons }

\* C27: the guard is never held forever: whenever an application of a remote
\* state sets it (and shows "Syncing"), it is cleared again, at once when the
\* application is deferred and otherwise when a settle timer fires, and the
\* status becomes "In sync" (or the page is left for a new one, which shows
\* "Idle").
C27_GuardAlwaysReleased ==
    \A p \in Peers :
        Syncing(p) ~> (~cl[p].isApplyingRemote /\ cl[p].syncState \in {"In sync", "Idle"})

----------------------------------------------------------------------------
(* A rejected play() *)

\* In the step at p a remote state that asks for playing was reconciled on a
\* paused player and the player is still paused: play() was rejected.
PlayRejected(p, state) ==
    /\ cl[p].paused /\ ~state.paused
    /\ cl'[p].isApplyingRemote /\ cl'[p].paused

\* C28: when the play() call made while applying a remote state is rejected,
\* no error is raised and no retry is made: the player stays paused and
\* reports no "play", the application still hands the snapshot to the cache
\* and starts the settle timer, the timer's callback clears the guard without
\* touching the player, and the guard is cleared in the end.
C28_RejectedPlayIsSwallowed ==
    /\ [][\A p \in Peers : \A state \in AppliedIn(p) :
            PlayRejected(p, state)
                => /\ cl'[p].open
                   /\ "play" \notin cl'[p].events
                   /\ cl'[p].cache = cacheState(cl[p], state).cache
                   /\ cl'[p].timers = cl[p].timers (+) SetToBag({SettleMs})
                   /\ cl'[p].syncState = SyncingLabel(state.reason)]_vars
    /\ [][\A p \in Peers :
            Settled(p) => /\ ~cl'[p].isApplyingRemote
                          /\ Player(cl'[p]) = Player(cl[p])]_vars
    /\ \A p \in Peers : cl[p].isApplyingRemote ~> ~cl[p].isApplyingRemote

\* A paused page has just reconciled the reply of a playing peer and is still
\* paused, the guard held and the settle timer started.
C28_Witness ==
    \E p \in Peers :
        /\ last = [op |-> "RecvState", peer |-> p]
        /\ cl[p].isApplyingRemote /\ cl[p].paused
        /\ cl[p].syncState = SyncingLabel(NoReason)
        /\ BagIn(SettleMs, cl[p].timers)
        /\ "pause" \notin cl[p].events
        /\ \E q \in Peers \ {p} : cl[q].connected /\ ~cl[q].paused

----------------------------------------------------------------------------
(* Failed version polls *)

\* the version poll of p has just failed
PollFailed(p) == last = [op |-> "PollFails", peer |-> p]

\* C29: a version poll that fails changes nothing: the stored token, the
\* cached state, the connection status and everything else of the page are as
\* before and the page is not reloaded; and when the next poll succeeds and
\* returns a token that differs from the stored one, the page still captures
\* and reloads as a poll does.
C29_FailedPollIgnored ==
    /\ [][\A p \in Peers :
            (last'.op = "PollFails" /\ last'.peer = p)
                => cl'[p] = cl[p] /\ down' = down]_vars
    /\ [][\A p \in Peers :
            (PollFailed(p) /\ last'.op = "Poll" /\ last'.peer = p
                 /\ cl[p].serverVersion # "" /\ SERVER_VERSION # cl[p].serverVersion)
                => /\ cl'[p] = NewPage(captureForReload(cl[p]).cache)
                   /\ ~cl'[p].connected]_vars

\* The relay has been replaced, and the poll of a page that still holds the
\* old token has just failed.
C29_Witness ==
    \E p \in Peers :
        /\ PollFailed(p)
        /\ cl[p].serverVersion # "" /\ cl[p].serverVersion # SERVER_VERSION
        /\ cl[p].status # "Connecting"

----------------------------------------------------------------------------
(* One reload per redeploy *)

\* the page of p holds the token of an earlier relay process
Stale(p) == cl[p].serverVersion \notin {"", SERVER_VERSION}

\* in this step p observes a token and its page is replaced by a new one
ReloadedOnToken(p) == TokenSeen(p) # "" /\ cl'[p] = NewPage(cl'[p].cache)

\* C30: a page reloads at most once per change of the server version token.
\* Only a change of the relay's token makes a page's token stale; a page
\* reloads on a token only when its own is stale, and the new page has none;
\* a page that has none stores the first token it observes and nothing else
\* happens; a page whose token is the relay's is left as it is by push and
\* poll.
C30_OneReloadPerChange ==
    /\ [][\A p \in Peers : TokenSeen(p) \in {"", SERVER_VERSION}]_vars
    /\ [][\A p \in Peers :
            (~Stale(p) /\ cl'[p].serverVersion \notin {"", SERVER_VERSION'})
                => last'.op = "Restart"]_vars
    /\ [][\A p \in Peers :
            TokenSeen(p) # "" =>
                IF Stale(p)
                THEN ReloadedOnToken(p) /\ cl'[p].serverVersion = ""
                ELSE cl'[p] = [cl[p] EXCEPT !.serverVersion = TokenSeen(p)]]_vars

\* After a redeploy a page has reloaded, has taken the new token from the
\* push on its new connection, and its poll has just returned the same token.
C30_Witness ==
    \E p \in Peers :
        /\ last = [op |-> "Poll", peer |-> p]
        /\ SERVER_VERSION # ServerVersion
        /\ cl[p].serverVersion = SERVER_VERSION
        /\ cl[p].connected
        /\ \A i \in DOMAIN down[p] : down[p][i].type # "server-version"

----------------------------------------------------------------------------
(* The chat of SyncPlayer.tsx *)

\* chat messages followed in a run
MaxChat == 3
\* what the user has typed, trimmed
ChatTexts == {"", "hi", "yo"}

\* sender: socketRef.current?.id ?? "local"
appendChatMessage(c, text, sender, at) ==
    LET message == [text |-> text, sender |-> sender, at |-> at]
    IN  Emit([c EXCEPT !.messages = Append(@, message)], ChatMsg(message))

\* onSubmit of the chat form; text is the trimmed value of the input
onSubmitChat(c, text, at) ==
    IF text = "" THEN c
    ELSE appendChatMessage(c, text, c.sid, at)

\* socket.on("chat")
onChat(c, msg) == [c EXCEPT !.messages = Append(@, msg.message)]

\* The user of p submits the chat form; acts stands for the clock Date.now()
\* reads, which has moved on since the last submission.
SubmitChat(p) ==
    /\ cl[p].connected
    /\ acts < MaxChat
    /\ acts' = acts + 1
    /\ \E text \in ChatTexts : Step(p, onSubmitChat(cl[p], text, acts'), down)
    /\ UNCHANGED <<nextSid, SERVER_VERSION, run, wk>>
    /\ Did("SubmitChat", p)

RecvChat(p) ==
    /\ Incoming(p, "chat")
    /\ Step(p, onChat(cl[p], Head(down[p])), Taken(p))
    /\ UNCHANGED <<nextSid, acts, SERVER_VERSION, run, wk>>
    /\ Did("RecvChat", p)

\* A room of two or three connected peers, nothing said yet.
InitChat ==
    /\ cl \in { [p \in Peers |-> CASE p = Peer(1) -> SessionPage(1, n)
                                   [] p = Peer(2) -> SessionPage(2, n)
                                   [] OTHER -> IF n = 3 THEN SessionPage(3, n) ELSE NoPage] :
                  n \in {2, 3} }
    /\ down = [p \in Peers |-> <<>>]
    /\ nextSid = 4
    /\ acts = 0
    /\ last = [op |-> "Init", peer |-> NoPeer]
    /\ SERVER_VERSION = ServerVersion
    /\ run = NoRun
    /\ wk = NoWorker

NextChat ==
    \/ \E p \in Open : SubmitChat(p)
    \/ \E p \in Open : RecvChat(p)

SpecChat == InitChat /\ [][NextChat]_vars

\* how often x occurs in the sequence seq
Count(x, seq) == Cardinality({ i \in DOMAIN seq : seq[i] = x })

\* the chat messages on the way to p or in p's list
ChatKnown(p) ==
    Range(cl[p].messages)
        \cup { down[p][i].message : i \in { j \in DOMAIN down[p] : down[p][j].type = "chat" } }

\* C32: every chat message with text that a peer sends is once in the list of
\* the sender, at once and never relayed back to it, and once in the list of
\* every other connected peer or still on its way there; a submission without
\* text adds nothing anywhere.
C32_ChatExactlyOnce ==
    /\ [](\A q \in Peers : \A m \in ChatKnown(q) :
            /\ m.text # ""
            /\ \A p \in Peers :
                  IF ~cl[p].connected
                    THEN Count(m, cl[p].messages) + Count(ChatMsg(m), down[p]) = 0
                  ELSE IF cl[p].sid = m.sender
                    THEN Count(m, cl[p].messages) = 1 /\ Count(ChatMsg(m), down[p]) = 0
                  ELSE Count(m, cl[p].messages) + Count(ChatMsg(m), down[p]) = 1)
    /\ [][\A p \in Peers :
            last' = [op |-> "SubmitChat", peer |-> p] =>
                \/ /\ Len(cl'[p].messages) = Len(cl[p].messages) + 1
                   /\ cl'[p].messages[Len(cl'[p].messages)].sender = cl[p].sid
                   /\ cl'[p].messages[Len(cl'[p].messages)].text \in ChatTexts \ {""}
                   /\ cl'[p].messages[Len(cl'[p].messages)] \notin ChatKnown(p)
                \/ UNCHANGED <<cl, down>>]_vars

\* Three peers have each said something and every message has reached the
\* lists of all three.
C32_Witness ==
    /\ \A p \in Peers : cl[p].connected /\ Len(cl[p].messages) = MaxChat /\ down[p] = <<>>
    /\ \A p \in Peers : \E i \in 1..MaxChat : cl[Peer(1)].messages[i].sender = cl[p].sid

----------------------------------------------------------------------------
(* The video call of the plain client *)

\* clicks on the call buttons followed in a run
MaxCallActs == 3

ensurePeerConnection(c) == [c EXCEPT !.localStream = TRUE, !.peerConnection = TRUE]

startCall(c) == Emit(ensurePeerConnection(c), CallOfferMsg)

\* socket.on("call-offer")
onCallOffer(c) ==
    Emit([ensurePeerConnection(c) EXCEPT !.remoteDescription = TRUE], CallAnswerMsg)

\* socket.on("call-answer")
onCallAnswer(c) ==
    IF ~c.peerConnection THEN c ELSE [c EXCEPT !.remoteDescription = TRUE]

endCall(c) ==
    Emit([c EXCEPT !.peerConnection = FALSE, !.remoteDescription = FALSE,
                   !.remoteStream = FALSE, !.localStream = FALSE], CallEndMsg)

\* A handler of the plain page of p ran on its next message or on a click and
\* left the page as c1, the relay's queues being queues: the relay handles
\* what the page emitted.
PlainCallStep(p, c1, queues) ==
    /\ cl' = [cl EXCEPT ![p] = [c1 EXCEPT !.outbox = <<>>]]
    /\ down' = relayAll(queues, Sockets, p, c1.outbox)

CallClick == acts < MaxCallActs /\ acts' = acts + 1

PlainStartCall(p) ==
    /\ cl[p].listening
    /\ CallClick
    /\ PlainCallStep(p, startCall(cl[p]), down)
    /\ UNCHANGED <<nextSid, SERVER_VERSION, run, wk>>
    /\ Did("PlainStartCall", p)

PlainEndCall(p) ==
    /\ cl[p].listening
    /\ CallClick
    /\ PlainCallStep(p, endCall(cl[p]), down)
    /\ UNCHANGED <<nextSid, SERVER_VERSION, run, wk>>
    /\ Did("PlainEndCall", p)

PlainRecvCallOffer(p) ==
    /\ Incoming(p, "call-offer")
    /\ PlainCallStep(p, onCallOffer(cl[p]), Taken(p))
    /\ UNCHANGED <<nextSid, acts, SERVER_VERSION, run, wk>>
    /\ Did("PlainRecvCallOffer", p)

PlainRecvCallAnswer(p) ==
    /\ Incoming(p, "call-answer")
    /\ PlainCallStep(p, onCallAnswer(cl[p]), Taken(p))
    /\ UNCHANGED <<nextSid, acts, SERVER_VERSION, run, wk>>
    /\ Did("PlainRecvCallAnswer", p)

\* peerConnection.ontrack: the media of the other side arrives
PlainTrack(p) ==
    /\ cl[p].peerConnection /\ cl[p].remoteDescription /\ ~cl[p].remoteStream
    /\ cl' = [cl EXCEPT ![p].remoteStream = TRUE]
    /\ UNCHANGED <<down, nextSid, acts, SERVER_VERSION, run, wk>>
    /\ Did("PlainTrack", p)

PlainRecvCallEnd(p) ==
    /\ Incoming(p, "call-end")
    /\ PlainCallStep(p, endCall(cl[p]), Taken(p))
    /\ UNCHANGED <<nextSid, acts, SERVER_VERSION, run, wk>>
    /\ Did("PlainRecvCallEnd", p)

\* a plain page whose init() is over, on catalog <<"A", "B">>
PlainSessionPage(sid) == [SessionPage(sid, 2) EXCEPT !.syncState = "Waiting"]

\* Two plain pages in a room, no call yet.
InitCall ==
    /\ cl = [p \in Peers |-> CASE p = Peer(1) -> PlainSessionPage(1)
                              [] p = Peer(2) -> PlainSessionPage(2)
                              [] OTHER -> NoPage]
    /\ down = [p \in Peers |-> <<>>]
    /\ nextSid = 3
    /\ acts = 0
    /\ last = [op |-> "Init", peer |-> NoPeer]
    /\ SERVER_VERSION = ServerVersion
    /\ run = NoRun
    /\ wk = NoWorker

NextCall ==
    \/ \E p \in Open : PlainStartCall(p)
    \/ \E p \in Open : PlainEndCall(p)
    \/ \E p \in Open : PlainRecvCallOffer(p)
    \/ \E p \in Open : PlainRecvCallAnswer(p)
    \/ \E p \in Open : PlainTrack(p)
    \/ \E p \in Open : PlainRecvCallEnd(p)

SpecCall == InitCall /\ [][NextCall]_vars

\* the "call-end" messages on the way to p
CallEndsTo(p) == Count(CallEndMsg, down[p])

\* C33: a plain page that receives "call-end" does not itself emit another
\* "call-end": no queue holds more "call-end" messages after the step than
\* before it.
C33_CallEndNotAnswered ==
    [][\A p \in Peers :
          last' = [op |-> "PlainRecvCallEnd", peer |-> p] =>
              \A q \in Peers \ {p} : CallEndsTo(q)' <= CallEndsTo(q)]_vars

----------------------------------------------------------------------------
(* runWithConcurrency of uploader/utils.ts *)

\* the longest item list followed
MaxItems == 3
\* the limits followed: R2_CONCURRENCY is any integer but 0, the function
\* itself takes any number
Limits == -1..(MaxItems + 1)

RECURSIVE SeqsUpTo(_, _)
\* the sequences over the set S of length at most n
SeqsUpTo(S, n) ==
    IF n = 0 THEN { <<>> }
    ELSE LET shorter == SeqsUpTo(S, n - 1)
         IN  shorter \cup { Append(sq, x) : sq \in shorter, x \in S }

ItemLists == SeqsUpTo({"a", "b"}, MaxItems)

\* the sequence seq without its elements equal to x
RECURSIVE Without(_, _)
Without(seq, x) ==
    IF seq = <<>> THEN <<>>
    ELSE IF Head(seq) = x THEN Without(Tail(seq), x)
    ELSE <<Head(seq)>> \o Without(Tail(seq), x)

\* The call runWithConcurrency(items, limit, worker) at its first line.  A
\* task is named by the number of its worker call; allResolve tells whether
\* the worker is one that never rejects.
NewRun(items, limit, allResolve) ==
    [ pc |-> "loop", items |-> items, limit |-> limit, allResolve |-> allResolve,
      queue |-> items, running |-> <<>>, calls |-> <<>>,
      inflight |-> {}, rejected |-> {}, race |-> "none" ]

\* the test of the inner while, with <= for <
canStartOneMore(r) == r.queue # <<>> /\ Len(r.running) <= r.limit

\* the test of the inner while
canStart(r) == r.queue # <<>> /\ Len(r.running) < r.limit

\* the outer while ending as soon as the queue is empty
mayReturnOnEmptyQueue(r) == r.queue = <<>>

\* the test of the outer while fails
mayReturn(r) == r.queue = <<>> /\ r.running = <<>>

\* one turn of the inner while: worker(queue.shift()) is called and its task
\* is pushed
startTask(r) ==
    LET t == Len(r.calls) + 1
    IN  [r EXCEPT !.queue = Tail(@), !.calls = Append(@, Head(r.queue)),
                  !.running = Append(@, t), !.inflight = @ \cup {t}]

\* the callback of finally for task t, after which the task settles as the
\* worker's promise did; Promise.race settles with the first task to settle
taskFinally(r, t) ==
    [r EXCEPT !.running = Without(@, t),
              !.race = IF @ # "pending" THEN @
                       ELSE IF t \in r.rejected THEN "rejected" ELSE "resolved"]

RunFrame == UNCHANGED <<cl, down, nextSid, acts, SERVER_VERSION, wk>>

StartTask ==
    /\ run.pc = "loop" /\ canStart(run)
    /\ run' = startTask(run)
    /\ RunFrame /\ Did("StartTask", NoPeer)

\* nothing can be started and nothing runs: the outer while turns without
\* reaching an await
Spin ==
    /\ run.pc = "loop" /\ ~canStart(run) /\ ~mayReturn(run) /\ run.running = <<>>
    /\ run' = run
    /\ RunFrame /\ Did("Spin", NoPeer)

AwaitRace ==
    /\ run.pc = "loop" /\ ~canStart(run) /\ run.running # <<>>
    /\ run' = [run EXCEPT !.pc = "await", !.race = "pending"]
    /\ RunFrame /\ Did("AwaitRace", NoPeer)

\* The promise of a worker call settles.  Callbacks run only while the
\* function is suspended or over.
WorkerSettles ==
    /\ run.pc \in {"await", "failed"}
    /\ \E t \in run.inflight : \E ok \in BOOLEAN :
          /\ ok \/ ~run.allResolve
          /\ run' = [run EXCEPT !.inflight = @ \ {t},
                                !.rejected = IF ok THEN @ ELSE @ \cup {t}]
    /\ RunFrame /\ Did("WorkerSettles", NoPeer)

TaskFinally ==
    /\ run.pc \in {"await", "failed"}
    /\ \E t \in Range(run.running) \ run.inflight : run' = taskFinally(run, t)
    /\ RunFrame /\ Did("TaskFinally", NoPeer)

\* the await of Promise.race is over: the loop goes on, or the rejection is
\* thrown out of the function
Resume ==
    /\ run.pc = "await" /\ run.race \in {"resolved", "rejected"}
    /\ run' = [run EXCEPT !.pc = IF run.race = "rejected" THEN "failed" ELSE "loop",
                          !.race = "none"]
    /\ RunFrame /\ Did("Resume", NoPeer)

Return ==
    /\ run.pc = "loop" /\ mayReturn(run)
    /\ run' = [run EXCEPT !.pc = "done"]
    /\ RunFrame /\ Did("Return", NoPeer)

\* no page is open and the relay has nothing to do
NoSession ==
    /\ cl = [p \in Peers |-> NoPage]
    /\ down = [p \in Peers |-> <<>>]
    /\ nextSid = 1
    /\ acts = 0
    /\ last = [op |-> "Init", peer |-> NoPeer]
    /\ SERVER_VERSION = ServerVersion

InitRun ==
    /\ NoSession
    /\ run \in { NewRun(items, limit, allResolve) :
                    items \in ItemLists, limit \in Limits, allResolve \in BOOLEAN }
    /\ wk = NoWorker

NextRun ==
    \/ StartTask
    \/ Spin
    \/ AwaitRace
    \/ WorkerSettles
    \/ TaskFinally
    \/ Resume
    \/ Return

SpecRun == InitRun /\ [][NextRun]_vars

\* C34: runWithConcurrency never has more than limit worker calls in flight
\* at the same time (none when the limit is below one), whatever the items
\* and the order in which the workers settle.
C34_AtMostLimitInFlight ==
    [](/\ Cardinality(run.inflight) <= (IF run.limit < 0 THEN 0 ELSE run.limit)
       /\ run.inflight \subseteq Range(run.running))

\* With limit 2 and three items, two calls are in flight again after the
\* first call has settled and the third has been started.
C34_Witness ==
    /\ run.limit = 2 /\ Len(run.items) = 3
    /\ run.inflight = {2, 3}

\* C35: for a limit of at least 1 and workers that all resolve, the worker is
\* called once for every item, in list order, and the function returns only
\* when every call has been made and has resolved; it never throws.
C35_EveryItemOnceInOrder ==
    []((run.limit >= 1 /\ run.allResolve) =>
          /\ Len(run.calls) <= Len(run.items)
          /\ run.calls = SubSeq(run.items, 1, Len(run.calls))
          /\ run.queue = SubSeq(run.items, Len(run.calls) + 1, Len(run.items))
          /\ run.pc # "failed"
          /\ run.pc = "done" =>
                (run.calls = run.items /\ run.inflight = {} /\ run.rejected = {}))

\* The call with limit 2 on three items has returned after its three worker
\* calls resolved.
C35_Witness ==
    /\ run.pc = "done" /\ run.limit = 2 /\ run.allResolve
    /\ run.calls = <<"a", "b", "a">>
    /\ last.op = "Return"

----------------------------------------------------------------------------
(* The queue worker of sync/index.ts *)

\* pulls followed in a run
MaxPolls == 2
\* the longest batch a pull returns (batch_size)
MaxBatch == 2

Keys == {"k1", "k2"}
NoKey == ""

\* The bodies of queue messages: an object with or without a key, a base64
\* string of such an object, anything else.
Bodies == { [kind |-> "object", key |-> "k1"], [kind |-> "object", key |-> "k2"],
            [kind |-> "object", key |-> NoKey], [kind |-> "base64", key |-> "k1"],
            [kind |-> "junk", key |-> NoKey] }

resolveTorrentKey(body) ==
    IF body.kind \in {"object", "base64"} THEN body.key ELSE NoKey

\* the batches the n-th pull can return: messages with ids of their own
BatchesOf(n) ==
    { [i \in 1..Len(bodies) |-> [id |-> n * MaxBatch + i, body |-> bodies[i]]] :
        bodies \in SeqsUpTo(Bodies, MaxBatch) }

\* the awaits of processTorrent, in order
ProcessSteps == <<"mkdir", "download", "ffmpeg", "upload", "mapping", "delete", "cleanup">>

\* processTorrent deleting the source before it writes the mapping
nextStepDeleteFirst(step) ==
    CASE step = "mkdir" -> "download"
      [] step = "download" -> "ffmpeg"
      [] step = "ffmpeg" -> "upload"
      [] step = "upload" -> "delete"
      [] step = "delete" -> "mapping"
      [] step = "mapping" -> "cleanup"
      [] step = "cleanup" -> "return"

\* the step of processTorrent after step
nextStep(step) ==
    CASE step = "mkdir" -> "download"
      [] step = "download" -> "ffmpeg"
      [] step = "ffmpeg" -> "upload"
      [] step = "upload" -> "mapping"
      [] step = "mapping" -> "delete"
      [] step = "delete" -> "cleanup"
      [] step = "cleanup" -> "return"

\* The worker before its first pull: sources is what the bucket holds.
NewWorker(sources) ==
    [ pc |-> "pull", polls |-> 0, batch |-> <<>>, i |-> 1,
      ackIds |-> <<>>, retryIds |-> <<>>, key |-> NoKey, done |-> {},
      bucket |-> sources, hls |-> {}, mappings |-> <<>>, reports |-> <<>> ]

\* the message the for loop is at
Current(w) == w.batch[w.i]

\* what the step does when its await resolves
stepEffect(w, step) ==
    CASE step = "upload" -> [w EXCEPT !.hls = @ \cup {w.key}]
      [] step = "mapping" -> [w EXCEPT !.mappings = Append(@, w.key)]
      [] step = "delete" -> [w EXCEPT !.bucket = @ \ {w.key}]
      [] OTHER -> w

\* the for loop goes to its next message
nextMessage(w) == [w EXCEPT !.i = @ + 1, !.pc = "message", !.key = NoKey]

\* the await of step resolves: processTorrent goes on, or returns and the
\* message is noted for the acknowledgement
stepOk(w) ==
    LET w1 == [stepEffect(w, w.pc) EXCEPT !.done = @ \cup {w.pc}]
    IN  IF nextStep(w.pc) = "return"
        THEN nextMessage([w1 EXCEPT !.ackIds = Append(@, Current(w).id)])
        ELSE [w1 EXCEPT !.pc = nextStep(w.pc)]

\* the await of step rejects: the upload is unwrapped with unwrapOrExitAsync
\* and ends the process; every other rejection is caught by the for loop
stepFails(w) ==
    IF w.pc = "upload" THEN [w EXCEPT !.pc = "exited"]
    ELSE nextMessage([w EXCEPT !.retryIds = Append(@, Current(w).id)])

\* whether the await of step can resolve: there is no download of a source
\* the bucket does not hold
canSucceed(w) == w.pc = "download" => w.key \in w.bucket

WorkerFrame == UNCHANGED <<cl, down, nextSid, acts, SERVER_VERSION, run>>

Pull ==
    /\ wk.pc = "pull" /\ wk.polls < MaxPolls
    /\ \E batch \in BatchesOf(wk.polls) :
          wk' = [wk EXCEPT !.polls = @ + 1, !.batch = batch, !.i = 1,
                           !.ackIds = <<>>, !.retryIds = <<>>,
                           !.pc = IF batch = <<>> THEN "sleep" ELSE "message"]
    /\ WorkerFrame /\ Did("Pull", NoPeer)

PullFails ==
    /\ wk.pc = "pull" /\ wk.polls < MaxPolls
    /\ wk' = [wk EXCEPT !.polls = @ + 1, !.pc = "exited"]
    /\ WorkerFrame /\ Did("PullFails", NoPeer)

Sleep ==
    /\ wk.pc = "sleep"
    /\ wk' = [wk EXCEPT !.pc = "pull"]
    /\ WorkerFrame /\ Did("Sleep", NoPeer)

\* the for loop takes its next message and resolves its key
ResolveKey ==
    /\ wk.pc = "message" /\ wk.i <= Len(wk.batch)
    /\ LET key == resolveTorrentKey(Current(wk).body)
       IN  wk' = IF key = NoKey
                 THEN nextMessage([wk EXCEPT !.retryIds = Append(@, Current(wk).id)])
                 ELSE [wk EXCEPT !.pc = ProcessSteps[1], !.key = key, !.done = {}]
    /\ WorkerFrame /\ Did("ResolveKey", NoPeer)

StepOk ==
    /\ wk.pc \in Range(ProcessSteps) /\ canSucceed(wk)
    /\ wk' = stepOk(wk)
    /\ WorkerFrame /\ Did("StepOk", NoPeer)

StepFails ==
    /\ wk.pc \in Range(ProcessSteps)
    /\ wk' = stepFails(wk)
    /\ WorkerFrame /\ Did("StepFails", NoPeer)

\* the for loop is over
EndOfBatch ==
    /\ wk.pc = "message" /\ wk.i > Len(wk.batch)
    /\ wk' = [wk EXCEPT !.pc = IF wk.ackIds # <<>> \/ wk.retryIds # <<>>
                                THEN "ack" ELSE "pull"]
    /\ WorkerFrame /\ Did("EndOfBatch", NoPeer)

Ack ==
    /\ wk.pc = "ack"
    /\ wk' = [wk EXCEPT !.pc = "pull",
                        !.reports = Append(@, [ack |-> wk.ackIds, retry |-> wk.retryIds])]
    /\ WorkerFrame /\ Did("Ack", NoPeer)

AckFails ==
    /\ wk.pc = "ack"
    /\ wk' = [wk EXCEPT !.pc = "exited"]
    /\ WorkerFrame /\ Did("AckFails", NoPeer)

InitWorker ==
    /\ NoSession
    /\ run = NoRun
    /\ wk \in { NewWorker(sources) : sources \in SUBSET Keys }

NextWorker ==
    \/ Pull
    \/ PullFails
    \/ Sleep
    \/ ResolveKey
    \/ StepOk
    \/ StepFails
    \/ EndOfBatch
    \/ Ack
    \/ AckFails

SpecWorker == InitWorker /\ [][NextWorker]_vars

\* the ids of the batch being worked on
BatchIds == { wk.batch[i].id : i \in DOMAIN wk.batch }

\* C36: a message whose key cannot be resolved or whose processing fails at
\* any step is noted for retry and the worker goes on to the next message; a
\* message is noted as acknowledged only when processTorrent returned; the
\* report sent before the next pull names every message of the batch once.
C36_EveryMessageReportedOnce ==
    /\ [][last'.op = "StepFails" =>
            /\ wk'.pc = "message"
            /\ wk'.retryIds = Append(wk.retryIds, Current(wk).id)
            /\ wk'.ackIds = wk.ackIds]_vars
    /\ [][last'.op = "StepOk" =>
            IF wk.pc = "cleanup"
            THEN wk'.ackIds = Append(wk.ackIds, Current(wk).id) /\ wk'.retryIds = wk.retryIds
            ELSE wk'.ackIds = wk.ackIds /\ wk'.retryIds = wk.retryIds]_vars
    /\ [][last'.op = "Ack" =>
            LET report == wk'.reports[Len(wk'.reports)]
            IN  /\ Range(report.ack) \cup Range(report.retry) = BatchIds
                /\ Len(report.ack) + Len(report.retry) = Len(wk.batch)]_vars

\* the source the worker is processing has just been deleted
SourceDeleted == wk'.bucket # wk.bucket

\* C37: the source object of a message is deleted only by the delete of
\* processTorrent, after the upload and the mapping write of this processing
\* have succeeded; a step that fails leaves the bucket as it is, and once a
\* step has failed the processing deletes nothing.
C37_DeleteOnlyAfterUploadAndMapping ==
    /\ [][SourceDeleted =>
            /\ last'.op = "StepOk" /\ wk.pc = "delete"
            /\ wk'.bucket = wk.bucket \ {wk.key}
            /\ {"download", "ffmpeg", "upload", "mapping"} \subseteq wk.done
            /\ wk.key \in wk.hls
            /\ wk.key \in Range(wk.mappings)]_vars
    /\ [][last'.op = "StepFails" =>
            /\ ~SourceDeleted
            /\ wk'.pc \notin Range(ProcessSteps)]_vars

\* The source k1 has just been deleted, its HLS output uploaded and its
\* mapping written.
C37_Witness ==
    /\ last.op = "StepOk" /\ wk.pc = "cleanup"
    /\ wk.key = "k1" /\ "k1" \notin wk.bucket
    /\ "k1" \in wk.hls /\ "k1" \in Range(wk.mappings)

----------------------------------------------------------------------------
(* A plain page joins *)

\* the steps of init() of the plain client
PlainInitOps == {"PlainLoadVideos", "PlainRestore"}

\* C31: in the plain-script client a peer that has just joined broadcasts no
\* "state" message of its own while its script starts, so it does not change
\* the playback of the peers already connected.
C31_JoinerStaysSilent ==
    [][\A p \in Peers :
          (last'.peer = p /\ last'.op \in PlainInitOps) => ~StateSent(p)]_vars

====
